---- MODULE Spec2Model ----
(***************************************************************************)
(* A model of two subsystems of the storage engine:                        *)
(*                                                                         *)
(*   - MemtableManager and MemtableUploader                                *)
(*       src/rust/storage/src/hummock/memtable.rs                          *)
(*   - ManagedTopNState                                                    *)
(*       src/rust/server/src/stream_op/managed_state/top_n/top_n_state.rs  *)
(*                                                                         *)
(* User keys are byte strings ordered lexicographically; they are modelled *)
(* by the integers 1..NumKeys with the usual order.  A full key is the     *)
(* pair <<user_key, epoch>>.  A HummockValue is <<"Put", v>> or            *)
(* <<"Delete">>; an Option is <<"Some", x>> or <<"None">>.                 *)
(***************************************************************************)
EXTENDS Integers, Sequences, FiniteSets, TLC

VARIABLES
    imm_memtables,        \* MemtableManager.imm_memtables: epoch -> (end user key -> memtable)
    chan,                 \* the unbounded channel uploader_tx -> rx: items in flight
    memtables_to_upload,  \* MemtableUploader.memtables_to_upload
    max_upload_epoch,     \* MemtableUploader.max_upload_epoch
    upc,                  \* where the uploader task stands in run()/handle()/sync()
    cur,                  \* the SYNC item the uploader is handling, and what it took
    syncs,                \* the sync() calls made so far: caller side of each oneshot
    meta,                 \* the add_tables calls the metadata service has accepted
    compactor,            \* number of messages sent on compactor_tx
    compactor_rx,         \* the receiving end of compactor_tx: "open" or "closed"
    mgr,                  \* the manager: "alive", or where wait() stands
    lastOp,               \* the last MemtableManager call and its result
    nWrites,              \* number of write_batch calls so far (memtable identity)
    nFail,                \* number of injected I/O failures so far
    lock,                 \* the RwLock around imm_memtables: "free", "read" or "write"
    wr,                   \* a thread in write_batch or delete_before, step by step
    rd,                   \* a thread in get or iters, step by step
    cursors,              \* the ImmutableMemtableIterators a reader holds, see NewCursor
    store,                \* the state store under the keyspace: <<pk, cell_idx>> -> bytes
    top_n,                \* ManagedTopNState.top_n: the cache, key -> row
    flush_buffer,         \* ManagedTopNState.flush_buffer: key -> FlushStatus
    total_count,          \* ManagedTopNState.total_count
    top_n_count,          \* ManagedTopNState.top_n_count: None or Some(n)
    tstate,               \* history of the top-N instance, see NewHistory
    nStoreFail            \* number of injected state-store failures so far

\* the registry's lock and the threads that are followed step by step
rwVars == <<lock, wr, rd>>

memVars == <<imm_memtables, chan, memtables_to_upload, max_upload_epoch, upc, cur,
             syncs, meta, compactor, compactor_rx, mgr, lastOp, nWrites, nFail, rwVars,
             cursors>>

topVars == <<store, top_n, flush_buffer, total_count, top_n_count, tstate, nStoreFail>>

\* what a call of the manager or a step of the uploader, taken as a whole,
\* leaves alone: the top-N state, the lock, which it holds and releases, and
\* the compactor's end of its channel and the cursors readers hold
othVars == <<topVars, rwVars, compactor_rx, cursors>>

vars == <<memVars, topVars>>

-----------------------------------------------------------------------------
(* Bounds of the model. *)

\* user keys are 1..NumKeys
NumKeys == 2
\* epochs are 1..NumEpochs
NumEpochs == 3
\* Put payloads are 1..NumVals
NumVals == 1
\* write_batch calls in one behaviour of the registry specification
MaxWrites == 3
\* write_batch calls in one behaviour of the uploader specification
MaxSyncWrites == 2
\* sync() calls in one behaviour
MaxSyncs == 2
\* failing I/O steps of the uploader in one behaviour
MaxFailures == 1

\* write_batch calls in one behaviour of the readers' specification
MaxReadWrites == 3

\* write_batch calls in one behaviour of the lock-level specification
MaxRwWrites == 2

\* do_insert/do_delete calls folded into one buffer entry in one behaviour
MaxFoldOps == 5

\* user keys of the memtable a cursor runs over are 1..NumIterKeys
NumIterKeys == 3

\* memtables written in a behaviour of the cursors
MaxIterWrites == 1

\* cursors opened in one behaviour
MaxCursors == 2

\* top-N keys are 1..NumTopKeys
NumTopKeys == 3
\* rows are 1..NumRows
NumRows == 2
\* columns of the schema: cells per row in the store
SchemaLen == 2
\* the largest cache bound Some(n) of an instance
MaxTopNCount == 2
\* failing state-store calls in one behaviour
MaxStoreFailures == 1

Keys == 1..NumKeys
Epochs == 1..NumEpochs
Put(v) == <<"Put", v>>
Delete == <<"Delete">>
Values == {Put(v) : v \in 1..NumVals} \cup {Delete}
None == <<"None">>
Some(x) == <<"Some", x>>

Max(S) == CHOOSE x \in S : \A y \in S : y <= x
Min(S) == CHOOSE x \in S : \A y \in S : x <= y

-----------------------------------------------------------------------------
(* Keys and memtables. *)

\* key::user_key: the user-key part of a full key
user_key(full_key) == full_key[1]

\* the order of full keys: user key ascending, then epoch descending
FullKeyLess(a, b) == a[1] < b[1] \/ (a[1] = b[1] /\ a[2] > b[2])

\* (mutant) the memtable is tagged with the epoch after the batch's
NewMemtableNextEpoch(sorted_items, epoch, id) ==
    [inner |-> sorted_items, epoch |-> epoch + 1, id |-> id]

\* ImmutableMemtable::new
NewMemtable(sorted_items, epoch, id) == [inner |-> sorted_items, epoch |-> epoch, id |-> id]

start_key(m) == m.inner[1][1]
end_key(m) == m.inner[Len(m.inner)][1]
start_user_key(m) == user_key(m.inner[1][1])
end_user_key(m) == user_key(m.inner[Len(m.inner)][1])

\* ImmutableMemtable::get: binary search on the user key of the sorted items
MemtableGet(m, uk) ==
    LET hits == {i \in 1..Len(m.inner) : user_key(m.inner[i][1]) = uk}
    IN  IF hits = {} THEN None ELSE Some(m.inner[CHOOSE i \in hits : TRUE][2])

\* The batches a caller hands to write_batch at epoch e: non-empty, strictly
\* ascending by full key, every full key carrying e.
RECURSIVE SortedSeq(_)
SortedSeq(S) == IF S = {} THEN <<>> ELSE <<Min(S)>> \o SortedSeq(S \ {Min(S)})

BatchesOver(KS, VS, e) ==
    UNION { LET ks == SortedSeq(ukeys)
            IN  { [i \in 1..Len(ks) |-> <<<<ks[i], e>>, f[ks[i]]>>] : f \in [ukeys -> VS] }
          : ukeys \in (SUBSET KS) \ {{}} }

-----------------------------------------------------------------------------
(* MemtableManager: the registry. *)

\* BTreeMap::insert
MapInsert(map, k, v) == [x \in (DOMAIN map) \cup {k} |-> IF x = k THEN v ELSE map[x]]

\* (mutant) the memtable is filed under its start user key
RegistryInsertByStartKey(reg, m) ==
    LET inner == IF m.epoch \in DOMAIN reg THEN reg[m.epoch] ELSE << >>
    IN  MapInsert(reg, m.epoch, MapInsert(inner, start_user_key(m), m))

\* the registry part of write_batch: entry(epoch).or_insert(BTreeMap::new())
\*   .insert(end_user_key, memtable)
RegistryInsert(reg, m) ==
    LET inner == IF m.epoch \in DOMAIN reg THEN reg[m.epoch] ELSE << >>
    IN  MapInsert(reg, m.epoch, MapInsert(inner, end_user_key(m), m))

\* MemtableManager::get over the epochs eps still to visit, newest first
RECURSIVE GetFrom(_, _, _)
GetFrom(reg, uk, eps) ==
    IF eps = {} THEN None
    ELSE LET e == Max(eps)
             rest == eps \ {e}
             memtables == reg[e]
             cands == {k \in DOMAIN memtables : k >= uk}
         IN  IF cands = {} THEN GetFrom(reg, uk, rest)
             ELSE LET m == memtables[Min(cands)]
                  IN  IF start_user_key(m) > uk THEN GetFrom(reg, uk, rest)
                      ELSE IF MemtableGet(m, uk) # None THEN MemtableGet(m, uk)
                      ELSE GetFrom(reg, uk, rest)

\* (mutant) get visits the epochs oldest first
RECURSIVE GetFromOldest(_, _, _)
GetFromOldest(reg, uk, eps) ==
    IF eps = {} THEN None
    ELSE LET e == Min(eps)
             rest == eps \ {e}
             memtables == reg[e]
             cands == {k \in DOMAIN memtables : k >= uk}
         IN  IF cands = {} THEN GetFromOldest(reg, uk, rest)
             ELSE LET m == memtables[Min(cands)]
                  IN  IF start_user_key(m) > uk THEN GetFromOldest(reg, uk, rest)
                      ELSE IF MemtableGet(m, uk) # None THEN MemtableGet(m, uk)
                      ELSE GetFromOldest(reg, uk, rest)

GetOldestFirst(reg, uk, epoch_range) == GetFromOldest(reg, uk, (DOMAIN reg) \cap epoch_range)

\* MemtableManager::get(user_key, epoch_range); an epoch range is the set of
\* epochs it contains
Get(reg, uk, epoch_range) == GetFrom(reg, uk, (DOMAIN reg) \cap epoch_range)

\* Bound<user key>: the endpoints of a key range
Unbounded == <<"Unbounded">>
Included(k) == <<"Included", k>>
Excluded(k) == <<"Excluded", k>>
Bounds == {Unbounded} \cup {Included(k) : k \in Keys} \cup {Excluded(k) : k \in Keys}

\* the key ranges a caller passes: (start_bound, end_bound)
KeyRanges == [start : Bounds, end : Bounds]

\* utils::range_overlap(search_key_range, inclusive_start_key,
\* inclusive_end_key, backward): the table [s, e] lies neither wholly to the
\* left of the range's start nor wholly to the right of its end
RangeOverlap(key_range, s, e, backward) ==
    LET start_bound == IF backward THEN key_range.end ELSE key_range.start
        end_bound == IF backward THEN key_range.start ELSE key_range.end
        too_left == CASE start_bound[1] = "Included" -> start_bound[2] > e
                      [] start_bound[1] = "Excluded" -> start_bound[2] >= e
                      [] OTHER -> FALSE
        too_right == CASE end_bound[1] = "Included" -> end_bound[2] < s
                       [] end_bound[1] = "Excluded" -> end_bound[2] <= s
                       [] OTHER -> FALSE
    IN  ~too_left /\ ~too_right

\* (mutant) the lower bound of the inner range is the key range's end bound
RangeFromEnd(memtables, key_range) ==
    SortedSeq({k \in DOMAIN memtables :
                  CASE key_range.end[1] = "Included" -> k >= key_range.end[2]
                    [] key_range.end[1] = "Excluded" -> k > key_range.end[2]
                    [] OTHER -> TRUE})

\* BTreeMap::range((key_range.start_bound(), Unbounded)) over the memtables of
\* one epoch: the end user keys at or after the start bound, ascending
RangeFromStart(memtables, key_range) ==
    SortedSeq({k \in DOMAIN memtables :
                  CASE key_range.start[1] = "Included" -> k >= key_range.start[2]
                    [] key_range.start[1] = "Excluded" -> k > key_range.start[2]
                    [] OTHER -> TRUE})

\* ImmutableMemtable::iter: a forward cursor at the first item
ForwardIter(m) == [inner |-> m.inner, current_idx |-> 0]

\* the closure of iters' flat_map for one epoch: range, filter, map
ItersOfEpoch(memtables, key_range) ==
    LET Hit(k) == RangeOverlap(key_range, start_user_key(memtables[k]),
                               end_user_key(memtables[k]), FALSE)
        hits == SelectSeq(RangeFromStart(memtables, key_range), Hit)
    IN  [i \in 1..Len(hits) |-> ForwardIter(memtables[hits[i]])]

\* the flat_map of iters over the epochs eps, ascending
RECURSIVE ItersFrom(_, _, _)
ItersFrom(reg, key_range, eps) ==
    IF eps = {} THEN <<>>
    ELSE ItersOfEpoch(reg[Min(eps)], key_range)
             \o ItersFrom(reg, key_range, eps \ {Min(eps)})

\* MemtableManager::iters(key_range, epoch_range)
Iters(reg, key_range, epoch_range) ==
    ItersFrom(reg, key_range, (DOMAIN reg) \cap epoch_range)

\* BTreeMap::split_off(&key): self keeps the keys below key, the keys at or
\* above it are returned
SplitOffKept(map, key) == [x \in {y \in DOMAIN map : y < key} |-> map[x]]

\* MemtableManager::delete_before: the map returned by split_off is dropped
DeleteBeforeReg(reg, epoch) == SplitOffKept(reg, epoch + 1)

\* epoch ranges: ..=e, ..e and a..=b
UpTo(e) == 0..e
Below(e) == 0..(e - 1)
EpochRanges == {a..b : a \in 0..NumEpochs, b \in 0..NumEpochs}

-----------------------------------------------------------------------------
(* The channel, the oneshot replies and the uploader task. *)

MemtableItem(m) == <<"MEMTABLE", m>>
SyncItem(sid) == <<"SYNC", sid>>

\* The receiver rx lives as long as run() has not returned.
RxAlive == upc \notin {"exit_ok", "exit_err"}

\* uploader_tx is a field of the manager: it is dropped when the manager is
\* dropped.  wait(self) moves only uploader_handle out of self, so the sender
\* is dropped when wait's body ends, after the await of the handle.
TxAlive == mgr \in {"alive", "waiting"}

\* sort_by(|l, r| l.start_key().cmp(r.start_key())): a stable insertion sort
RECURSIVE InsertSorted(_, _)
InsertSorted(sorted, m) ==
    IF sorted = <<>> THEN <<m>>
    ELSE IF FullKeyLess(start_key(m), start_key(Head(sorted)))
         THEN <<m>> \o sorted
         ELSE <<Head(sorted)>> \o InsertSorted(Tail(sorted), m)

\* the buffer is uploaded in the order of arrival
ArrivalOrder(ms) == ms

RECURSIVE SortByStartKey(_)
SortByStartKey(ms) ==
    IF ms = <<>> THEN <<>>
    ELSE InsertSorted(SortByStartKey(SubSeq(ms, 1, Len(ms) - 1)), ms[Len(ms)])

\* handle() treats a failed sync() as fatal: the error is sent to the caller
\* and returned to run(), which ends the task
ReplyErrorStops(sid, res) ==
    /\ cur' = None
    /\ IF syncs[sid].st = "waiting"
       THEN /\ syncs' = [syncs EXCEPT ![sid].st = res]
            /\ upc' = IF res = "Err" THEN "exit_err" ELSE "idle"
       ELSE /\ syncs' = syncs
            /\ upc' = "exit_err"

\* handle() discards the result of tx.send(res): a caller that is gone is
\* ignored and the uploader goes on
ReplyIgnoresDroppedCaller(sid, res) ==
    /\ cur' = None
    /\ upc' = "idle"
    /\ syncs' = IF syncs[sid].st = "waiting" THEN [syncs EXCEPT ![sid].st = res] ELSE syncs

\* tx.send(res) on the oneshot of SYNC sid, the tail of handle(): the caller
\* receives res, or, when its receiver is gone, handle() fails and run() returns
\* the error.
Reply(sid, res) ==
    /\ cur' = None
    /\ IF syncs[sid].st = "waiting"
       THEN /\ syncs' = [syncs EXCEPT ![sid].st = res]
            /\ upc' = "idle"
       ELSE /\ syncs' = syncs
            /\ upc' = "exit_err"

-----------------------------------------------------------------------------
(* MemtableManager operations. *)

\* the user-key range of batch B is disjoint from the range of every memtable
\* registered at epoch e
RangeDisjoint(reg, B, e) ==
    e \in DOMAIN reg =>
        \A k \in DOMAIN reg[e] :
            \/ end_user_key(reg[e][k]) < user_key(B[1][1])
            \/ user_key(B[Len(B)][1]) < start_user_key(reg[e][k])

\* write_batch hands the memtable to the uploader over a rendezvous: the call
\* returns only once the uploader, back in its loop, can take the item
WriteBatchWhenUploaderIdle(B, e) ==
    /\ mgr = "alive"
    /\ upc \notin {"build", "upload", "add_tables"}
    /\ LET m == NewMemtable(B, e, nWrites + 1)
       IN  /\ imm_memtables' = RegistryInsert(imm_memtables, m)
           /\ chan' = IF RxAlive THEN Append(chan, MemtableItem(m)) ELSE chan
           /\ lastOp' = [op |-> "write_batch", epoch |-> e, batch |-> B,
                         disjoint |-> RangeDisjoint(imm_memtables, B, e),
                         res |-> IF RxAlive THEN "Ok" ELSE "Err"]
    /\ nWrites' = nWrites + 1
    /\ UNCHANGED <<othVars, memtables_to_upload, max_upload_epoch, upc, cur, syncs, meta,
                   compactor, mgr, nFail>>

\* MemtableManager::write_batch(batch, epoch)
WriteBatch(B, e) ==
    /\ mgr = "alive"
    /\ LET m == NewMemtable(B, e, nWrites + 1)
       IN  /\ imm_memtables' = RegistryInsert(imm_memtables, m)
           /\ chan' = IF RxAlive THEN Append(chan, MemtableItem(m)) ELSE chan
           /\ lastOp' = [op |-> "write_batch", epoch |-> e, batch |-> B,
                         disjoint |-> RangeDisjoint(imm_memtables, B, e),
                         res |-> IF RxAlive THEN "Ok" ELSE "Err"]
    /\ nWrites' = nWrites + 1
    /\ UNCHANGED <<othVars, memtables_to_upload, max_upload_epoch, upc, cur, syncs, meta,
                   compactor, mgr, nFail>>

\* MemtableManager::delete_before(epoch)
DeleteBefore(e) ==
    /\ mgr = "alive"
    /\ imm_memtables' = DeleteBeforeReg(imm_memtables, e)
    /\ lastOp' = [op |-> "delete_before", epoch |-> e, batch |-> <<>>,
                  disjoint |-> TRUE, res |-> "Ok"]
    /\ UNCHANGED <<othVars, chan, memtables_to_upload, max_upload_epoch, upc, cur, syncs,
                   meta, compactor, mgr, nWrites, nFail>>

\* MemtableManager::sync, up to the await of the reply: the SYNC item is sent
\* with unwrap(), which panics when the receiver is gone
SyncCall ==
    /\ mgr = "alive"
    /\ Len(syncs) < MaxSyncs
    /\ syncs' = Append(syncs, [st |-> IF RxAlive THEN "waiting" ELSE "panic",
                               written |-> nWrites])
    /\ chan' = IF RxAlive THEN Append(chan, SyncItem(Len(syncs) + 1)) ELSE chan
    /\ lastOp' = [op |-> "sync", epoch |-> 0, batch |-> <<>>, disjoint |-> TRUE,
                  res |-> "Ok"]
    /\ UNCHANGED <<othVars, imm_memtables, memtables_to_upload, max_upload_epoch, upc, cur,
                   meta, compactor, mgr, nWrites, nFail>>

\* the future of a sync() call is dropped before the reply arrives
SyncCancel(sid) ==
    /\ syncs[sid].st = "waiting"
    /\ syncs' = [syncs EXCEPT ![sid].st = "dropped"]
    /\ UNCHANGED <<othVars, imm_memtables, chan, memtables_to_upload, max_upload_epoch, upc,
                   cur, meta, compactor, mgr, lastOp, nWrites, nFail>>

\* MemtableManager::sync, rx.await.unwrap(): the uploader task has ended and
\* dropped the queued SYNC item with its oneshot sender, the await yields a
\* RecvError and unwrap() panics
SyncReplyDropped(sid) ==
    /\ syncs[sid].st = "waiting"
    /\ ~RxAlive
    /\ syncs' = [syncs EXCEPT ![sid].st = "panic"]
    /\ UNCHANGED <<othVars, imm_memtables, chan, memtables_to_upload, max_upload_epoch, upc,
                   cur, meta, compactor, mgr, lastOp, nWrites, nFail>>

\* MemtableManager::wait(self), up to the await of uploader_handle.  A sync()
\* future borrows the manager, so none is pending when the manager is moved.
WaitCall ==
    /\ mgr = "alive"
    /\ \A sid \in 1..Len(syncs) : syncs[sid].st # "waiting"
    /\ mgr' = "waiting"
    /\ UNCHANGED <<othVars, imm_memtables, chan, memtables_to_upload, max_upload_epoch, upc,
                   cur, syncs, meta, compactor, lastOp, nWrites, nFail>>

\* wait(): the handle resolves with what run() returned
WaitReturn ==
    /\ mgr = "waiting"
    /\ ~RxAlive
    /\ mgr' = IF upc = "exit_ok" THEN "wait_ok" ELSE "wait_err"
    /\ UNCHANGED <<othVars, imm_memtables, chan, memtables_to_upload, max_upload_epoch, upc,
                   cur, syncs, meta, compactor, lastOp, nWrites, nFail>>

\* the manager is dropped without wait(): the sender goes, the task is detached
DropManager ==
    /\ mgr = "alive"
    /\ \A sid \in 1..Len(syncs) : syncs[sid].st # "waiting"
    /\ mgr' = "dropped"
    /\ UNCHANGED <<othVars, imm_memtables, chan, memtables_to_upload, max_upload_epoch, upc,
                   cur, syncs, meta, compactor, lastOp, nWrites, nFail>>

-----------------------------------------------------------------------------
(* MemtableUploader: run(), handle() and sync(). *)

\* the epoch of the memtable received last
LatestEpoch(a, b) == b

\* self.max_upload_epoch.max(m.epoch())
MaxEpoch(a, b) == IF b > a THEN b ELSE a

\* self.compactor_tx.send(()).ok(): the message is queued while the receiver
\* lives; the error of a closed channel is discarded
SendToCompactor == IF compactor_rx = "open" THEN compactor + 1 ELSE compactor

\* the owner of the compactor's receiver drops it
CompactorDropped ==
    /\ compactor_rx = "open"
    /\ compactor_rx' = "closed"
    /\ UNCHANGED <<topVars, rwVars, cursors, imm_memtables, chan, memtables_to_upload,
                   max_upload_epoch, upc, cur, syncs, meta, compactor, mgr, lastOp,
                   nWrites, nFail>>

\* handle(MEMTABLE(m))
UploaderRecvMemtable ==
    /\ upc = "idle"
    /\ chan # <<>>
    /\ Head(chan)[1] = "MEMTABLE"
    /\ chan' = Tail(chan)
    /\ max_upload_epoch' = MaxEpoch(max_upload_epoch, Head(chan)[2].epoch)
    /\ memtables_to_upload' = Append(memtables_to_upload, Head(chan)[2])
    /\ UNCHANGED <<othVars, imm_memtables, upc, cur, syncs, meta, compactor, mgr, lastOp,
                   nWrites, nFail>>

\* sync() notifies the compactor before it looks at the buffer: a message
\* after every SYNC item
UploaderSyncEmptyNotifies ==
    /\ upc = "idle"
    /\ chan # <<>>
    /\ Head(chan)[1] = "SYNC"
    /\ memtables_to_upload = <<>>
    /\ chan' = Tail(chan)
    /\ compactor' = SendToCompactor
    /\ Reply(Head(chan)[2], "Ok")
    /\ UNCHANGED <<othVars, imm_memtables, memtables_to_upload, max_upload_epoch, meta,
                   mgr, lastOp, nWrites, nFail>>

\* handle(SYNC(tx)) with an empty buffer: sync() returns Ok at once
UploaderSyncEmpty ==
    /\ upc = "idle"
    /\ chan # <<>>
    /\ Head(chan)[1] = "SYNC"
    /\ memtables_to_upload = <<>>
    /\ chan' = Tail(chan)
    /\ Reply(Head(chan)[2], "Ok")
    /\ UNCHANGED <<othVars, imm_memtables, memtables_to_upload, max_upload_epoch, meta,
                   compactor, mgr, lastOp, nWrites, nFail>>

\* sync() reads the buffer and leaves it in place: memtables_to_upload[..]
\* where the code has std::mem::take
UploaderSyncStartKeepsBuffer ==
    /\ upc = "idle"
    /\ chan # <<>>
    /\ Head(chan)[1] = "SYNC"
    /\ memtables_to_upload # <<>>
    /\ chan' = Tail(chan)
    /\ cur' = [sid |-> Head(chan)[2], taken |-> SortByStartKey(memtables_to_upload)]
    /\ upc' = "build"
    /\ UNCHANGED <<othVars, imm_memtables, memtables_to_upload, max_upload_epoch, syncs,
                   meta, compactor, mgr, lastOp, nWrites, nFail>>

\* handle(SYNC(tx)) with a non-empty buffer, up to the first await of sync():
\* the buffer is sorted and moved out with std::mem::take
UploaderSyncStart ==
    /\ upc = "idle"
    /\ chan # <<>>
    /\ Head(chan)[1] = "SYNC"
    /\ memtables_to_upload # <<>>
    /\ chan' = Tail(chan)
    /\ cur' = [sid |-> Head(chan)[2], taken |-> SortByStartKey(memtables_to_upload)]
    /\ memtables_to_upload' = <<>>
    /\ upc' = "build"
    /\ UNCHANGED <<othVars, imm_memtables, max_upload_epoch, syncs, meta, compactor, mgr,
                   lastOp, nWrites, nFail>>

\* the builder loop of sync(): get_new_table_id and add_full_key succeed
UploaderBuildOk ==
    /\ upc = "build"
    /\ upc' = "upload"
    /\ UNCHANGED <<othVars, imm_memtables, chan, memtables_to_upload, max_upload_epoch, cur,
                   syncs, meta, compactor, mgr, lastOp, nWrites, nFail>>

\* gen_remote_sstable succeeds for every table
UploaderUploadOk ==
    /\ upc = "upload"
    /\ upc' = "add_tables"
    /\ UNCHANGED <<othVars, imm_memtables, chan, memtables_to_upload, max_upload_epoch, cur,
                   syncs, meta, compactor, mgr, lastOp, nWrites, nFail>>

\* the uploader looks at the caller before it registers, and registers
\* nothing for a caller that is gone
AddTablesUnlessCancelled ==
    /\ upc = "add_tables"
    /\ syncs[cur.sid].st = "waiting"
    /\ meta' = Append(meta, [epoch |-> max_upload_epoch, tables |-> cur.taken,
                             sid |-> cur.sid])
    /\ compactor' = SendToCompactor
    /\ Reply(cur.sid, "Ok")
    /\ UNCHANGED <<othVars, imm_memtables, chan, memtables_to_upload, max_upload_epoch, mgr,
                   lastOp, nWrites, nFail>>

\* add_tables succeeds: the tables are registered at max_upload_epoch, the
\* compactor is notified and sync() returns Ok
UploaderAddTablesOk ==
    /\ upc = "add_tables"
    /\ meta' = Append(meta, [epoch |-> max_upload_epoch, tables |-> cur.taken,
                             sid |-> cur.sid])
    /\ compactor' = SendToCompactor
    /\ Reply(cur.sid, "Ok")
    /\ UNCHANGED <<othVars, imm_memtables, chan, memtables_to_upload, max_upload_epoch, mgr,
                   lastOp, nWrites, nFail>>

\* one of the awaited steps of sync() fails (the ? operator): sync() returns the
\* error, and memtables_to_upload stays as std::mem::take left it
UploaderStepFails ==
    /\ upc \in {"build", "upload", "add_tables"}
    /\ nFail < MaxFailures
    /\ nFail' = nFail + 1
    /\ Reply(cur.sid, "Err")
    /\ UNCHANGED <<othVars, imm_memtables, chan, memtables_to_upload, max_upload_epoch, meta,
                   compactor, mgr, lastOp, nWrites>>

\* run(): the channel is empty and every sender is gone: the loop breaks
UploaderExit ==
    /\ upc = "idle"
    /\ chan = <<>>
    /\ ~TxAlive
    /\ upc' = "exit_ok"
    /\ UNCHANGED <<othVars, imm_memtables, chan, memtables_to_upload, max_upload_epoch, cur,
                   syncs, meta, compactor, mgr, lastOp, nWrites, nFail>>

UploaderStep ==
    \/ UploaderRecvMemtable
    \/ UploaderSyncEmpty
    \/ UploaderSyncStart
    \/ UploaderBuildOk
    \/ UploaderUploadOk
    \/ UploaderAddTablesOk
    \/ UploaderStepFails
    \/ UploaderExit

-----------------------------------------------------------------------------
(* Specifications of the memtable layer. *)

\* the history kept of a top-N instance: whether fill_in_cache has loaded it,
\* whether a call has panicked, the last call and its result, the last
\* operation on every key touched since the previous flush() call, what the
\* last call, if a flush(), found and submitted, for a recreated instance the
\* top element its predecessor had at its flush and the operations its
\* predecessor never flushed, and the do_insert and do_delete calls made
\* directly on the buffer entry of one key
NewHistory ==
    [loaded |-> FALSE, panicked |-> FALSE, op |-> "new", ret |-> None,
     touched |-> << >>, at |-> None, rec |-> None, lost |-> << >>, ops |-> <<>>]

\* the top-N instance of a behaviour of the memtable layer: none is in use
TopUnused ==
    /\ store = << >>
    /\ top_n = << >>
    /\ flush_buffer = << >>
    /\ total_count = 0
    /\ top_n_count = None
    /\ tstate = NewHistory
    /\ nStoreFail = 0

\* a thread that is in no call of the manager
WriterIdle == [pc |-> "idle", op |-> "none", m |-> None, epoch |-> 0]
ReaderIdle ==
    [pc |-> "idle", op |-> "none", key |-> None, epoch_range |-> {}, pos |-> 0,
     acc |-> None, snap |-> << >>]

\* MemtableManager::new
MemStart ==
    /\ imm_memtables = << >>
    /\ chan = <<>>
    /\ memtables_to_upload = <<>>
    /\ max_upload_epoch = 0
    /\ upc = "idle"
    /\ cur = None
    /\ syncs = <<>>
    /\ meta = <<>>
    /\ compactor = 0
    /\ compactor_rx = "open"
    /\ mgr = "alive"
    /\ lastOp = [op |-> "new", epoch |-> 0, batch |-> <<>>, disjoint |-> TRUE,
                 res |-> "Ok"]
    /\ nWrites = 0
    /\ nFail = 0
    /\ lock = "free"
    /\ wr = WriterIdle
    /\ rd = ReaderIdle
    /\ cursors = <<>>

MemInit == MemStart /\ TopUnused

\* The registry under every batch shape: memtables are written, purged and
\* handed to the uploader; no sync is requested.
NextReg ==
    \/ /\ nWrites < MaxWrites
       /\ \E e \in Epochs : \E B \in BatchesOver(Keys, Values, e) : WriteBatch(B, e)
    \/ \E e \in Epochs : DeleteBefore(e)
    \/ UploaderRecvMemtable

SpecReg == MemInit /\ [][NextReg]_vars

-----------------------------------------------------------------------------
(* The registry under its lock: write_batch, delete_before, get and iters   *)
(* taken one step at a time, a writer thread beside a reader thread.        *)

\* write_batch(batch, epoch): the memtable is made before the lock is asked for
RwWriteBatchCall(B, e) ==
    /\ mgr = "alive"
    /\ wr.pc = "idle"
    /\ nWrites < MaxRwWrites
    /\ wr' = [pc |-> "write_lock", op |-> "write_batch",
              m |-> NewMemtable(B, e, nWrites + 1), epoch |-> e]
    /\ nWrites' = nWrites + 1
    /\ UNCHANGED <<topVars, compactor_rx, cursors, imm_memtables, chan, memtables_to_upload, max_upload_epoch, upc,
                   cur, syncs, meta, compactor, mgr, lastOp, nFail, lock, rd>>

\* delete_before(epoch)
RwDeleteBeforeCall(e) ==
    /\ mgr = "alive"
    /\ wr.pc = "idle"
    /\ wr' = [pc |-> "write_lock", op |-> "delete_before", m |-> None, epoch |-> e]
    /\ UNCHANGED <<topVars, compactor_rx, cursors, imm_memtables, chan, memtables_to_upload, max_upload_epoch, upc,
                   cur, syncs, meta, compactor, mgr, lastOp, nWrites, nFail, lock, rd>>

\* imm_memtables.write(): exclusive, waits until no guard is out
RwWriteLock ==
    /\ wr.pc = "write_lock"
    /\ lock = "free"
    /\ lock' = "write"
    /\ wr' = [wr EXCEPT !.pc = IF wr.op = "write_batch" THEN "entry" ELSE "split_off"]
    /\ UNCHANGED <<topVars, compactor_rx, cursors, imm_memtables, chan, memtables_to_upload, max_upload_epoch, upc,
                   cur, syncs, meta, compactor, mgr, lastOp, nWrites, nFail, rd>>

\* .entry(epoch).or_insert(BTreeMap::new())
RwEntry ==
    /\ wr.pc = "entry"
    /\ imm_memtables' = IF wr.epoch \in DOMAIN imm_memtables THEN imm_memtables
                        ELSE MapInsert(imm_memtables, wr.epoch, << >>)
    /\ wr' = [wr EXCEPT !.pc = "insert"]
    /\ UNCHANGED <<topVars, compactor_rx, cursors, chan, memtables_to_upload, max_upload_epoch, upc, cur, syncs,
                   meta, compactor, mgr, lastOp, nWrites, nFail, lock, rd>>

\* .insert(end_user_key, memtable)
RwInsert ==
    /\ wr.pc = "insert"
    /\ imm_memtables' = RegistryInsert(imm_memtables, wr.m)
    /\ lastOp' = [op |-> "write_batch", epoch |-> wr.epoch, batch |-> wr.m.inner,
                  disjoint |-> RangeDisjoint(imm_memtables, wr.m.inner, wr.epoch),
                  res |-> "Ok"]
    /\ wr' = [wr EXCEPT !.pc = "send"]
    /\ UNCHANGED <<topVars, compactor_rx, cursors, chan, memtables_to_upload, max_upload_epoch, upc, cur, syncs,
                   meta, compactor, mgr, nWrites, nFail, lock, rd>>

\* the end of write_batch's first statement drops the guard; then
\* uploader_tx.send(MEMTABLE(m)) and the return
RwUnlockSend ==
    /\ wr.pc = "send"
    /\ lock' = "free"
    /\ chan' = IF RxAlive THEN Append(chan, MemtableItem(wr.m)) ELSE chan
    /\ lastOp' = [lastOp EXCEPT !.res = IF RxAlive THEN "Ok" ELSE "Err"]
    /\ wr' = WriterIdle
    /\ UNCHANGED <<topVars, compactor_rx, cursors, imm_memtables, memtables_to_upload, max_upload_epoch, upc, cur,
                   syncs, meta, compactor, mgr, nWrites, nFail, rd>>

\* .split_off(&(epoch + 1)), its result dropped, the guard dropped, the return
RwSplitOff ==
    /\ wr.pc = "split_off"
    /\ imm_memtables' = DeleteBeforeReg(imm_memtables, wr.epoch)
    /\ lastOp' = [op |-> "delete_before", epoch |-> wr.epoch, batch |-> <<>>,
                  disjoint |-> TRUE, res |-> "Ok"]
    /\ lock' = "free"
    /\ wr' = WriterIdle
    /\ UNCHANGED <<topVars, compactor_rx, cursors, chan, memtables_to_upload, max_upload_epoch, upc, cur, syncs,
                   meta, compactor, mgr, nWrites, nFail, rd>>

\* the epoch ranges and key ranges of the reader's calls
RwEpochRanges == {UpTo(e) : e \in Epochs}
RwKeyRanges ==
    {[start |-> Unbounded, end |-> Unbounded], [start |-> Included(1), end |-> Excluded(2)]}

\* get(user_key, epoch_range) is called
RwGetCall(uk, epoch_range) ==
    /\ mgr = "alive"
    /\ rd.pc = "idle"
    /\ rd' = [ReaderIdle EXCEPT !.pc = "read_lock", !.op = "get", !.key = uk,
                                !.epoch_range = epoch_range, !.pos = NumEpochs + 1]
    /\ UNCHANGED <<topVars, compactor_rx, cursors, imm_memtables, chan, memtables_to_upload, max_upload_epoch, upc,
                   cur, syncs, meta, compactor, mgr, lastOp, nWrites, nFail, lock, wr>>

\* iters(key_range, epoch_range) is called
RwItersCall(key_range, epoch_range) ==
    /\ mgr = "alive"
    /\ rd.pc = "idle"
    /\ rd' = [ReaderIdle EXCEPT !.pc = "read_lock", !.op = "iters", !.key = key_range,
                                !.epoch_range = epoch_range, !.pos = 0, !.acc = <<>>]
    /\ UNCHANGED <<topVars, compactor_rx, cursors, imm_memtables, chan, memtables_to_upload, max_upload_epoch, upc,
                   cur, syncs, meta, compactor, mgr, lastOp, nWrites, nFail, lock, wr>>

\* (mutant) the reader walks the registry without a guard
RwReadNoLock ==
    /\ rd.pc = "read_lock"
    /\ rd' = [rd EXCEPT !.pc = "visit", !.snap = imm_memtables]
    /\ UNCHANGED <<topVars, compactor_rx, cursors, imm_memtables, chan, memtables_to_upload, max_upload_epoch, upc,
                   cur, syncs, meta, compactor, mgr, lastOp, nWrites, nFail, lock, wr>>

\* imm_memtables.read(): shared, waits while the writer's guard is out; snap
\* records the registry the guard was given
RwReadLock ==
    /\ rd.pc = "read_lock"
    /\ lock = "free"
    /\ lock' = "read"
    /\ rd' = [rd EXCEPT !.pc = "visit", !.snap = imm_memtables]
    /\ UNCHANGED <<topVars, compactor_rx, cursors, imm_memtables, chan, memtables_to_upload, max_upload_epoch, upc,
                   cur, syncs, meta, compactor, mgr, lastOp, nWrites, nFail, wr>>

\* the body of get's loop for the memtables of one epoch
GetInEpoch(memtables, uk) ==
    LET cands == {k \in DOMAIN memtables : k >= uk}
    IN  IF cands = {} THEN None
        ELSE LET m == memtables[Min(cands)]
             IN  IF start_user_key(m) > uk THEN None ELSE MemtableGet(m, uk)

\* the epochs the reader's range iterator has still to yield: get walks
\* range(epoch_range).rev(), iters walks range(epoch_range)
RwToVisit ==
    {e \in (DOMAIN imm_memtables) \cap rd.epoch_range :
        IF rd.op = "get" THEN e < rd.pos ELSE e > rd.pos}

\* one turn of the reader's loop over the epochs, or its end
RwVisit ==
    /\ rd.pc = "visit"
    /\ IF RwToVisit = {} THEN rd' = [rd EXCEPT !.pc = "read_unlock"]
       ELSE IF rd.op = "get"
            THEN LET e == Max(RwToVisit)
                     hit == GetInEpoch(imm_memtables[e], rd.key)
                 IN  rd' = [rd EXCEPT !.pos = e, !.acc = hit,
                                      !.pc = IF hit = None THEN "visit" ELSE "read_unlock"]
            ELSE LET e == Min(RwToVisit)
                 IN  rd' = [rd EXCEPT !.pos = e,
                                      !.acc = rd.acc \o ItersOfEpoch(imm_memtables[e], rd.key)]
    /\ UNCHANGED <<topVars, compactor_rx, cursors, imm_memtables, chan, memtables_to_upload, max_upload_epoch, upc,
                   cur, syncs, meta, compactor, mgr, lastOp, nWrites, nFail, lock, wr>>

\* the guard is dropped and the call returns rd.acc
RwReadUnlock ==
    /\ rd.pc = "read_unlock"
    /\ lock' = IF lock = "read" THEN "free" ELSE lock
    /\ rd' = ReaderIdle
    /\ UNCHANGED <<topVars, compactor_rx, cursors, imm_memtables, chan, memtables_to_upload, max_upload_epoch, upc,
                   cur, syncs, meta, compactor, mgr, lastOp, nWrites, nFail, wr>>

NextRW ==
    \/ \E e \in Epochs : \E B \in BatchesOver(Keys, {Put(1)}, e) : RwWriteBatchCall(B, e)
    \/ \E e \in Epochs : RwDeleteBeforeCall(e)
    \/ RwWriteLock
    \/ RwEntry
    \/ RwInsert
    \/ RwUnlockSend
    \/ RwSplitOff
    \/ \E uk \in Keys : \E epoch_range \in RwEpochRanges : RwGetCall(uk, epoch_range)
    \/ \E key_range \in RwKeyRanges : \E epoch_range \in RwEpochRanges :
          RwItersCall(key_range, epoch_range)
    \/ RwReadLock
    \/ RwVisit
    \/ RwReadUnlock

SpecRW == MemInit /\ [][NextRW]_vars

\* The registry as get and iters find it: batches of Put items are written and
\* epochs are purged; the uploader is not scheduled.
NextRead ==
    \/ /\ nWrites < MaxReadWrites
       /\ \E e \in Epochs : \E B \in BatchesOver(Keys, {Put(1)}, e) : WriteBatch(B, e)
    \/ \E e \in Epochs : DeleteBefore(e)

SpecRead == MemInit /\ [][NextRead]_vars

-----------------------------------------------------------------------------
(* ImmutableMemtableIterator: cursors over one registered memtable. *)

IterKeys == 1..NumIterKeys

\* the full keys a caller may seek to
SeekKeys == IterKeys \X Epochs

\* ImmutableMemtable::iter / reverse_iter -> ImmutableMemtableIterator::new.
\* inner and current_idx are the fields of the iterator, dir is its DIRECTION
\* parameter.  The rest is history: the last call made on the cursor, the key
\* of the last seek, the items the cursor stood on when next() was called
\* since it was last positioned, and whether a call has panicked.
NewCursor(dir, inner) ==
    [dir |-> dir, inner |-> inner, current_idx |-> 0,
     op |-> "new", key |-> None, seen |-> <<>>, panicked |-> FALSE]

\* is_valid
IsValid(c) == c.current_idx < Len(c.inner)

\* current_item without the match on DIRECTION: every cursor reads the slot
\* current_idx
CurrentItemSameSlot(c) == c.inner[c.current_idx + 1]

\* current_item: the slot current_idx of a forward cursor, the slot
\* len - current_idx - 1 of a backward one (slots count from 0)
CurrentItem(c) ==
    IF c.dir = "FORWARD" THEN c.inner[c.current_idx + 1]
    ELSE c.inner[(Len(c.inner) - c.current_idx - 1) + 1]

\* slice::binary_search_by(|probe| probe.0.cmp(key)) between left and right:
\* Ok(i) for a slot that holds key, Err(i) with the slot where key would go
RECURSIVE BinarySearch(_, _, _, _)
BinarySearch(inner, key, left, right) ==
    IF left >= right THEN <<"Err", left>>
    ELSE LET mid == left + ((right - left) \div 2)
             probe == inner[mid + 1][1]
         IN  IF FullKeyLess(probe, key) THEN BinarySearch(inner, key, mid + 1, right)
             ELSE IF FullKeyLess(key, probe) THEN BinarySearch(inner, key, left, mid)
             ELSE <<"Ok", mid>>

\* seek sets current_idx to the slot found, whatever the direction
SeekIdx(c, key) == BinarySearch(c.inner, key, 0, Len(c.inner))[2]

\* a reader takes a cursor on a registered memtable
OpenCursor(dir) ==
    /\ Len(cursors) < MaxCursors
    /\ \E e \in DOMAIN imm_memtables : \E k \in DOMAIN imm_memtables[e] :
          cursors' = Append(cursors, NewCursor(dir, imm_memtables[e][k].inner))
    /\ UNCHANGED <<topVars, rwVars, compactor_rx, imm_memtables, chan, memtables_to_upload,
                   max_upload_epoch, upc, cur, syncs, meta, compactor, mgr, lastOp,
                   nWrites, nFail>>

\* ImmutableMemtableIterator::next on a valid cursor
CursorNext(i) ==
    /\ ~cursors[i].panicked
    /\ IsValid(cursors[i])
    /\ cursors' = [cursors EXCEPT ![i].current_idx = @ + 1,
                                  ![i].seen = Append(@, CurrentItem(cursors[i])),
                                  ![i].op = "next"]
    /\ UNCHANGED <<topVars, rwVars, compactor_rx, imm_memtables, chan, memtables_to_upload,
                   max_upload_epoch, upc, cur, syncs, meta, compactor, mgr, lastOp,
                   nWrites, nFail>>

\* next, key or value on a cursor that is not valid: assert!(self.is_valid())
CursorPanics(i) ==
    /\ ~cursors[i].panicked
    /\ ~IsValid(cursors[i])
    /\ cursors' = [cursors EXCEPT ![i].panicked = TRUE]
    /\ UNCHANGED <<topVars, rwVars, compactor_rx, imm_memtables, chan, memtables_to_upload,
                   max_upload_epoch, upc, cur, syncs, meta, compactor, mgr, lastOp,
                   nWrites, nFail>>

\* ImmutableMemtableIterator::rewind
CursorRewind(i) ==
    /\ ~cursors[i].panicked
    /\ cursors' = [cursors EXCEPT ![i].current_idx = 0, ![i].seen = <<>>,
                                  ![i].op = "rewind", ![i].key = None]
    /\ UNCHANGED <<topVars, rwVars, compactor_rx, imm_memtables, chan, memtables_to_upload,
                   max_upload_epoch, upc, cur, syncs, meta, compactor, mgr, lastOp,
                   nWrites, nFail>>

\* ImmutableMemtableIterator::seek(key)
CursorSeek(i, key) ==
    /\ ~cursors[i].panicked
    /\ cursors' = [cursors EXCEPT ![i].current_idx = SeekIdx(cursors[i], key),
                                  ![i].seen = <<>>, ![i].op = "seek",
                                  ![i].key = Some(key)]
    /\ UNCHANGED <<topVars, rwVars, compactor_rx, imm_memtables, chan, memtables_to_upload,
                   max_upload_epoch, upc, cur, syncs, meta, compactor, mgr, lastOp,
                   nWrites, nFail>>

\* One memtable is written, and readers run cursors over it.
NextIter ==
    \/ /\ nWrites < MaxIterWrites
       /\ \E e \in Epochs : \E B \in BatchesOver(IterKeys, {Put(1)}, e) : WriteBatch(B, e)
    \/ \E dir \in {"FORWARD", "BACKWARD"} : OpenCursor(dir)
    \/ \E i \in 1..Len(cursors) : CursorNext(i)
    \/ \E i \in 1..Len(cursors) : CursorPanics(i)
    \/ \E i \in 1..Len(cursors) : CursorRewind(i)
    \/ \E i \in 1..Len(cursors) : \E key \in SeekKeys : CursorSeek(i, key)

SpecIter == MemInit /\ [][NextIter]_vars

\* The manager with its uploader: batches of Put items, syncs, cancelled
\* callers, failing uploads, wait() and drop.
Next ==
    \/ /\ nWrites < MaxSyncWrites
       /\ \E e \in Epochs : \E B \in BatchesOver(Keys, {Put(1)}, e) : WriteBatch(B, e)
    \/ \E e \in Epochs : DeleteBefore(e)
    \/ SyncCall
    \/ \E sid \in 1..Len(syncs) : SyncCancel(sid)
    \/ \E sid \in 1..Len(syncs) : SyncReplyDropped(sid)
    \/ WaitCall
    \/ WaitReturn
    \/ DropManager
    \/ UploaderStep
    \/ CompactorDropped

Spec == MemInit /\ [][Next]_vars

-----------------------------------------------------------------------------
(* Claims about the registry (SpecReg). *)

\* the memtables registered at one epoch do not overlap in user-key range
NonOverlapping(reg) ==
    \A e \in DOMAIN reg : \A k1, k2 \in DOMAIN reg[e] :
        k1 < k2 => end_user_key(reg[e][k1]) < start_user_key(reg[e][k2])

\* some memtable registered at epoch e holds user key k
Contains(reg, e, k) ==
    e \in DOMAIN reg /\ \E ek \in DOMAIN reg[e] : MemtableGet(reg[e][ek], k) # None

\* the value the memtables registered at epoch e give to user key k
ValueAt(reg, e, k) ==
    MemtableGet(reg[e][CHOOSE ek \in DOMAIN reg[e] : MemtableGet(reg[e][ek], k) # None], k)

\* the newest epoch of the range at which k is registered decides
NewestValue(reg, k, r) ==
    LET E == {e \in (DOMAIN reg) \cap r : Contains(reg, e, k)}
    IN  IF E = {} THEN None ELSE ValueAt(reg, Max(E), k)

\* C1: a write_batch(B, e) (the step that raises nWrites; lastOp' holds B and
\* e) whose user-key range overlaps no memtable registered at e makes
\* get(k, ..=e) return B's value (Put or Delete) for every user key of B, and
\* leaves get(k, ..e) as it was for every user key.
C1_EpochVisibility ==
    [][(nWrites' = nWrites + 1
          /\ RangeDisjoint(imm_memtables, lastOp'.batch, lastOp'.epoch)) =>
          LET B == lastOp'.batch
              e == lastOp'.epoch
          IN  /\ \A i \in 1..Len(B) :
                    Get(imm_memtables', user_key(B[i][1]), UpTo(e)) = Some(B[i][2])
              /\ \A k \in Keys :
                    Get(imm_memtables', k, Below(e)) = Get(imm_memtables, k, Below(e))
      ]_vars

\* C1 witness: a non-overlapping write_batch has just joined another memtable
\* of its epoch, and an older epoch gives one of its keys another value.
C1_Witness ==
    /\ lastOp.op = "write_batch"
    /\ lastOp.disjoint
    /\ Cardinality(DOMAIN imm_memtables[lastOp.epoch]) = 2
    /\ \E i \in 1..Len(lastOp.batch) :
          LET k == user_key(lastOp.batch[i][1])
          IN  /\ Get(imm_memtables, k, UpTo(lastOp.epoch)) = Some(lastOp.batch[i][2])
              /\ Get(imm_memtables, k, Below(lastOp.epoch)) # None
              /\ Get(imm_memtables, k, Below(lastOp.epoch)) # Some(lastOp.batch[i][2])

\* C2 as stated: with B1 at e1 and B2 at e2 > e1 registered and both holding k,
\* get(k, ..=e2) is B2's value, and get(k, r) is B1's value for every range r
\* that includes e1 and excludes e2.
C2_NewerWinsAsStated ==
    NonOverlapping(imm_memtables) =>
        \A k \in Keys : \A e1, e2 \in DOMAIN imm_memtables :
            (e1 < e2 /\ Contains(imm_memtables, e1, k) /\ Contains(imm_memtables, e2, k)) =>
                /\ Get(imm_memtables, k, UpTo(e2)) = ValueAt(imm_memtables, e2, k)
                /\ \A r \in EpochRanges :
                      (e1 \in r /\ e2 \notin r) =>
                          Get(imm_memtables, k, r) = ValueAt(imm_memtables, e1, k)

\* C2 (amended): in a registry whose memtables do not overlap within an epoch,
\* get(k, r) returns the value (a tombstone as Delete) of the newest epoch of r
\* whose memtables hold k, falling through the epochs that do not hold k, and
\* None when no epoch of r holds k.  So get(k, ..=e2) is B2's value, and
\* get(k, r) for r with e1 and without e2 is B1's value when no epoch of r
\* newer than e1 holds k.
C2_NewerWins ==
    NonOverlapping(imm_memtables) =>
        \A k \in Keys : \A r \in EpochRanges :
            Get(imm_memtables, k, r) = NewestValue(imm_memtables, k, r)

\* C2 witness: the cross-epoch scenario: k1 is put at e1 and deleted at e2, k2
\* is registered at e1 only, so get(k2, ..=e2) falls through e2.
C2_Witness ==
    /\ NonOverlapping(imm_memtables)
    /\ \E k1, k2 \in Keys : \E e1, e2 \in DOMAIN imm_memtables :
          /\ e1 < e2
          /\ Contains(imm_memtables, e1, k1) /\ Contains(imm_memtables, e2, k1)
          /\ ValueAt(imm_memtables, e1, k1) = Some(Put(1))
          /\ Get(imm_memtables, k1, UpTo(e2)) = Some(Delete)
          /\ Get(imm_memtables, k1, e1..(e2 - 1)) = Some(Put(1))
          /\ Contains(imm_memtables, e1, k2) /\ ~Contains(imm_memtables, e2, k2)
          /\ Get(imm_memtables, k2, UpTo(e2)) = Some(Put(1))

\* C3: delete_before(e) removes exactly the entries of epoch <= e: afterwards
\* get(k, ..=e) is None for every user key, and every epoch > e is registered
\* with the memtables it had.
C3_RegistryPurge ==
    [][\A e \in Epochs :
          DeleteBefore(e) =>
              /\ \A k \in Keys : Get(imm_memtables', k, UpTo(e)) = None
              /\ DOMAIN imm_memtables' = {x \in DOMAIN imm_memtables : x > e}
              /\ \A x \in DOMAIN imm_memtables' : imm_memtables'[x] = imm_memtables[x]
      ]_vars

-----------------------------------------------------------------------------
(* Claims about sync, the uploader and wait (Spec). *)

\* C4: when a sync() call has returned Ok, every memtable whose write_batch
\* completed before that call is part of some successful add_tables call.
C4_SyncDurability ==
    \A sid \in 1..Len(syncs) :
        syncs[sid].st = "Ok" =>
            \A id \in 1..syncs[sid].written :
                \E i \in 1..Len(meta) : \E j \in 1..Len(meta[i].tables) :
                    meta[i].tables[j].id = id

\* C5: a failing step of the uploader's sync (the step that raises nFail)
\* leaves in memtables_to_upload the memtables that sync was uploading.
C5_FailureKeepsBuffer ==
    [][nFail' = nFail + 1 =>
          {memtables_to_upload'[i] : i \in 1..Len(memtables_to_upload')}
              = {cur.taken[i] : i \in 1..Len(cur.taken)}
      ]_vars

\* C6: while wait() is pending on a manager whose uploader has not failed, the
\* uploader or wait() itself can take a step: the uploader drains the queue,
\* sees the disconnect and exits, and wait() returns; wait() is never stuck.
C6_WaitTerminates ==
    (mgr = "waiting" /\ upc # "exit_err") => ENABLED (UploaderStep \/ WaitReturn)

-----------------------------------------------------------------------------
(* ManagedTopNState: keys, rows, FlushStatus and the state store. *)

TopKeys == 1..NumTopKeys
Rows == 1..NumRows
CellIdx == 0..(SchemaLen - 1)

\* FlushStatus
FlushInsert(r) == <<"Insert", r>>
FlushDelete == <<"Delete">>
FlushDeleteInsert(r) == <<"DeleteInsert", r>>

\* (mutant) an insert after a delete forgets that a tombstone is needed
DoInsertForgetsDelete(buf, k, r) == MapInsert(buf, k, FlushInsert(r))

\* FlushStatus::do_insert on the entry of key k
DoInsert(buf, k, r) ==
    IF k \notin DOMAIN buf THEN MapInsert(buf, k, FlushInsert(r))
    ELSE IF buf[k][1] = "Insert" THEN MapInsert(buf, k, FlushInsert(r))
    ELSE MapInsert(buf, k, FlushDeleteInsert(r))

\* FlushStatus::do_delete on the entry of key k
DoDelete(buf, k) == MapInsert(buf, k, FlushDelete)

\* FlushStatus::into_option
IntoOption(status) == IF status[1] = "Delete" THEN None ELSE Some(status[2])

\* BTreeMap::remove
MapRemove(map, k) == [x \in (DOMAIN map) \ {k} |-> map[x]]

\* Row::serialize: the concatenation of the row's per-cell blobs
Serialize(row) == [i \in 1..SchemaLen |-> <<row, i>>]

\* RowDeserializer::deserialize: reads one blob per column of the schema from
\* the front of the bytes and gives the row they make
Deserialize(row_bytes) ==
    CHOOSE r \in Rows : \A i \in 1..SchemaLen : row_bytes[i] = <<r, i>>

\* row_bytes.extend_from_slice over the cells a..b of a scan
RECURSIVE ConcatCells(_, _, _)
ConcatCells(pk_row_bytes, a, b) ==
    IF a > b THEN <<>>
    ELSE pk_row_bytes[a][2] \o ConcatCells(pk_row_bytes, a + 1, b)

\* store keys [pk | cell_idx] in ascending order
CellLess(a, b) == a[1] < b[1] \/ (a[1] = b[1] /\ a[2] < b[2])

RECURSIVE SortedCells(_)
SortedCells(S) ==
    IF S = {} THEN <<>>
    ELSE LET c == CHOOSE x \in S : \A y \in S \ {x} : CellLess(x, y)
         IN  <<c>> \o SortedCells(S \ {c})

\* Keyspace::scan_strip_prefix(limit): the cells in key order, at most limit
ScanStripPrefix(st, limit) ==
    LET cells == SortedCells(DOMAIN st)
        n == IF limit = None \/ limit[2] > Len(cells) THEN Len(cells) ELSE limit[2]
    IN  [i \in 1..n |-> <<cells[i], st[cells[i]]>>]

\* scan_from_storage(number_rows): every schema.len() cells make one row, keyed
\* by the pk of the last of them
ScanFromStorage(st, number_rows) ==
    LET pk_row_bytes == ScanStripPrefix(st, IF number_rows = None THEN None
                                            ELSE Some(number_rows[2] * SchemaLen))
    IN  [g \in 1..(Len(pk_row_bytes) \div SchemaLen) |->
            <<pk_row_bytes[g * SchemaLen][1][1],
              Deserialize(ConcatCells(pk_row_bytes, (g - 1) * SchemaLen + 1,
                                      g * SchemaLen))>>]

\* StateStore::ingest_batch: the writes applied in order, None deletes
RECURSIVE IngestBatch(_, _)
IngestBatch(st, writes) ==
    IF writes = <<>> THEN st
    ELSE LET w == Head(writes)
         IN  IngestBatch(IF w[2] = None THEN MapRemove(st, w[1])
                         ELSE MapInsert(st, w[1], w[2][2]), Tail(writes))

-----------------------------------------------------------------------------
(* ManagedTopNState: the operations. *)

\* is_dirty
IsDirty == flush_buffer # << >>

\* retain_top_n with pop_first in the place of pop_last
RECURSIVE RetainTopNPopFirst(_, _)
RetainTopNPopFirst(cache, cnt) ==
    IF cnt # None /\ Cardinality(DOMAIN cache) > cnt[2]
    THEN RetainTopNPopFirst(MapRemove(cache, Min(DOMAIN cache)), cnt)
    ELSE cache

\* retain_top_n: pop_last while the cache holds more than top_n_count entries
RECURSIVE RetainTopN(_, _)
RetainTopN(cache, cnt) ==
    IF cnt # None /\ Cardinality(DOMAIN cache) > cnt[2]
    THEN RetainTopN(MapRemove(cache, Max(DOMAIN cache)), cnt)
    ELSE cache

\* top_element
TopElement ==
    IF total_count = 0 \/ DOMAIN top_n = {} THEN None
    ELSE Some(<<Min(DOMAIN top_n), top_n[Min(DOMAIN top_n)]>>)

\* (mutant) a stored key that the buffer overrides is cached with its stored row
RECURSIVE MergeFromStoredRows(_, _, _, _, _, _)
MergeFromStoredRows(kvs, buf, bufKeys, i, pos, cache) ==
    IF i > Len(kvs) THEN [cache |-> cache, panic |-> FALSE]
    ELSE LET ks == kvs[i][1]
             later == {q \in pos..Len(bufKeys) : bufKeys[q] >= ks}
             p == IF later = {} THEN Len(bufKeys) + 1 ELSE Min(later)
         IN  IF p > Len(bufKeys)
             THEN MergeFromStoredRows(kvs, buf, bufKeys, i + 1, p,
                                      MapInsert(cache, ks, kvs[i][2]))
             ELSE IF ks = bufKeys[p]
                  THEN IF buf[ks] = FlushDelete
                       THEN MergeFromStoredRows(kvs, buf, bufKeys, i + 1, p, cache)
                       ELSE MergeFromStoredRows(kvs, buf, bufKeys, i + 1, p,
                                                MapInsert(cache, ks, kvs[i][2]))
                  ELSE [cache |-> cache, panic |-> TRUE]

ScanAndMergeStoredRows(kvs, buf, cache) ==
    MergeFromStoredRows(kvs, buf, SortedSeq(DOMAIN buf), 1, 1, cache)

\* the loop of scan_and_merge from storage row i on, the peekable buffer
\* cursor standing at bufKeys[pos]; panic is the unreachable!() arm
RECURSIVE MergeFrom(_, _, _, _, _, _)
MergeFrom(kvs, buf, bufKeys, i, pos, cache) ==
    IF i > Len(kvs) THEN [cache |-> cache, panic |-> FALSE]
    ELSE LET ks == kvs[i][1]
             later == {q \in pos..Len(bufKeys) : bufKeys[q] >= ks}
             p == IF later = {} THEN Len(bufKeys) + 1 ELSE Min(later)
         IN  IF p > Len(bufKeys)
             THEN MergeFrom(kvs, buf, bufKeys, i + 1, p, MapInsert(cache, ks, kvs[i][2]))
             ELSE IF ks = bufKeys[p]
                  THEN IF buf[ks] = FlushDelete
                       THEN MergeFrom(kvs, buf, bufKeys, i + 1, p, cache)
                       ELSE MergeFrom(kvs, buf, bufKeys, i + 1, p,
                                      MapInsert(cache, ks, buf[ks][2]))
                  ELSE IF ks > bufKeys[p]
                       THEN MergeFrom(kvs, buf, bufKeys, i + 1, p + 1, cache)
                       ELSE [cache |-> cache, panic |-> TRUE]

\* scan_and_merge, given the rows scanned from storage
ScanAndMerge(kvs, buf, cache) == MergeFrom(kvs, buf, SortedSeq(DOMAIN buf), 1, 1, cache)

\* the rows the instance stands for: the persisted keys with the pending
\* deletes applied, and the keys with a pending insert
StoreKeys == {c[1] : c \in DOMAIN store}
LogicalKeys ==
    (StoreKeys \ {k \in DOMAIN flush_buffer : flush_buffer[k] = FlushDelete})
        \cup {k \in DOMAIN flush_buffer : flush_buffer[k] # FlushDelete}

\* an insert or delete of key k joins the history of this flush interval
Touch(k, what) ==
    MapInsert(tstate.touched, k,
              [ins |-> what # <<"del">> \/ (k \in DOMAIN tstate.touched /\ tstate.touched[k].ins),
               last |-> what])

\* what a flush() call found (store, touched keys, cache) and the writes it
\* submitted to ingest_batch
AtFlush(writes) ==
    Some([pre |-> store, flushed |-> tstate.touched, writes |-> writes, cache |-> top_n])

\* (mutant) insert writes the row's cells through to the store
InsertWritesThrough(k, r) ==
    /\ ~tstate.panicked
    /\ k \notin LogicalKeys
    /\ top_n' = MapInsert(top_n, k, r)
    /\ flush_buffer' = DoInsert(flush_buffer, k, r)
    /\ total_count' = total_count + 1
    /\ store' = [c \in (DOMAIN store) \cup ({k} \X CellIdx) |->
                    IF c[1] = k THEN Serialize(r) ELSE store[c]]
    /\ tstate' = [tstate EXCEPT !.op = "insert", !.ret = None, !.at = None, !.rec = None,
                                !.lost = << >>, !.touched = Touch(k, <<"ins", r>>)]
    /\ UNCHANGED <<memVars, top_n_count, nStoreFail>>

\* insert(key, value); the caller's keys are unique: the key is no current row
Insert(k, r) ==
    /\ ~tstate.panicked
    /\ k \notin LogicalKeys
    /\ top_n' = MapInsert(top_n, k, r)
    /\ flush_buffer' = DoInsert(flush_buffer, k, r)
    /\ total_count' = total_count + 1
    /\ tstate' = [tstate EXCEPT !.op = "insert", !.ret = None, !.at = None, !.rec = None,
                                !.lost = << >>, !.touched = Touch(k, <<"ins", r>>)]
    /\ UNCHANGED <<memVars, store, top_n_count, nStoreFail>>

\* pop_top_element on an empty state: Ok(None)
PopNone ==
    /\ ~tstate.panicked
    /\ total_count = 0
    /\ tstate' = [tstate EXCEPT !.op = "pop", !.ret = None, !.at = None, !.rec = None,
                                !.lost = << >>]
    /\ UNCHANGED <<memVars, store, top_n, flush_buffer, total_count, top_n_count,
                   nStoreFail>>

\* pop_top_element with total_count > 0 and an empty cache: the debug
\* assertion fails, or first_key_value().unwrap() panics
PopPanics ==
    /\ ~tstate.panicked
    /\ total_count > 0
    /\ DOMAIN top_n = {}
    /\ tstate' = [tstate EXCEPT !.op = "pop", !.ret = <<"Panic">>, !.panicked = TRUE,
                                !.at = None, !.rec = None, !.lost = << >>]
    /\ UNCHANGED <<memVars, store, top_n, flush_buffer, total_count, top_n_count,
                   nStoreFail>>

\* pop_top_element: the first cached key goes through delete(), which refills
\* the cache with scan_and_merge and retain_top_n when it drained
PopTopElement ==
    /\ ~tstate.panicked
    /\ total_count > 0
    /\ DOMAIN top_n # {}
    /\ LET key == Min(DOMAIN top_n)
           cache == MapRemove(top_n, key)
           buf == DoDelete(flush_buffer, key)
           merged == ScanAndMerge(ScanFromStorage(store, None), buf, cache)
       IN  /\ flush_buffer' = buf
           /\ total_count' = total_count - 1
           /\ IF DOMAIN cache = {} /\ total_count - 1 > 0
              THEN IF merged.panic
                   THEN /\ top_n' = merged.cache
                        /\ tstate' = [tstate EXCEPT !.op = "pop", !.ret = <<"Panic">>,
                                                    !.panicked = TRUE, !.at = None,
                                                    !.rec = None, !.lost = << >>,
                                                    !.touched = Touch(key, <<"del">>)]
                   ELSE /\ top_n' = RetainTopN(merged.cache, top_n_count)
                        /\ tstate' = [tstate EXCEPT !.op = "pop",
                                                    !.ret = Some(<<key, top_n[key]>>),
                                                    !.at = None, !.rec = None,
                                                    !.lost = << >>,
                                                    !.touched = Touch(key, <<"del">>)]
              ELSE /\ top_n' = cache
                   /\ tstate' = [tstate EXCEPT !.op = "pop",
                                               !.ret = Some(<<key, top_n[key]>>),
                                               !.at = None, !.rec = None,
                                               !.lost = << >>,
                                               !.touched = Touch(key, <<"del">>)]
    /\ UNCHANGED <<memVars, store, top_n_count, nStoreFail>>

\* pop_top_element whose refill scan fails: delete() has removed the key and
\* lowered total_count, and returns the scan's error
PopScanFails ==
    /\ ~tstate.panicked
    /\ total_count > 1
    /\ Cardinality(DOMAIN top_n) = 1
    /\ nStoreFail < MaxStoreFailures
    /\ nStoreFail' = nStoreFail + 1
    /\ top_n' = << >>
    /\ flush_buffer' = DoDelete(flush_buffer, Min(DOMAIN top_n))
    /\ total_count' = total_count - 1
    /\ tstate' = [tstate EXCEPT !.op = "pop", !.ret = <<"Err">>, !.at = None, !.rec = None,
                                !.lost = << >>,
                                !.touched = Touch(Min(DOMAIN top_n), <<"del">>)]
    /\ UNCHANGED <<memVars, store, top_n_count>>

\* flush() leaves the deleted keys' tombstones out of the batch
RECURSIVE WriteBatchesValuesOnly(_, _)
WriteBatchesValuesOnly(buf, keys) ==
    IF keys = <<>> THEN <<>>
    ELSE LET pk == Head(keys)
             row_option == IntoOption(buf[pk])
         IN  (IF row_option = None THEN <<>>
              ELSE [c \in 1..SchemaLen |-> <<<<pk, c - 1>>, Some(Serialize(row_option[2]))>>])
             \o WriteBatchesValuesOnly(buf, Tail(keys))

\* flush() writes the first cell of every buffered key only
RECURSIVE WriteBatchesFirstCellOnly(_, _)
WriteBatchesFirstCellOnly(buf, keys) ==
    IF keys = <<>> THEN <<>>
    ELSE LET pk == Head(keys)
             row_option == IntoOption(buf[pk])
         IN  <<<<<<pk, 0>>,
                 IF row_option = None THEN None ELSE Some(Serialize(row_option[2]))>>>>
             \o WriteBatchesFirstCellOnly(buf, Tail(keys))

\* the write batch of flush(): every cell of every buffered key
RECURSIVE WriteBatches(_, _)
WriteBatches(buf, keys) ==
    IF keys = <<>> THEN <<>>
    ELSE LET pk == Head(keys)
             row_option == IntoOption(buf[pk])
         IN  [c \in 1..SchemaLen |->
                 <<<<pk, c - 1>>,
                   IF row_option = None THEN None ELSE Some(Serialize(row_option[2]))>>]
             \o WriteBatches(buf, Tail(keys))

\* flush() of a clean state
FlushClean ==
    /\ ~tstate.panicked
    /\ ~IsDirty
    /\ top_n' = RetainTopN(top_n, top_n_count)
    /\ tstate' = [tstate EXCEPT !.op = "flush", !.ret = <<"Ok">>, !.rec = None,
                                !.lost = << >>, !.touched = << >>, !.at = AtFlush(<<>>)]
    /\ UNCHANGED <<memVars, store, flush_buffer, total_count, top_n_count, nStoreFail>>

\* flush() of a dirty state: the buffer is taken, ingested, the cache cut
Flush ==
    /\ ~tstate.panicked
    /\ IsDirty
    /\ flush_buffer' = << >>
    /\ store' = IngestBatch(store, WriteBatches(flush_buffer, SortedSeq(DOMAIN flush_buffer)))
    /\ top_n' = RetainTopN(top_n, top_n_count)
    /\ tstate' = [tstate EXCEPT !.op = "flush", !.ret = <<"Ok">>, !.rec = None,
                                !.lost = << >>, !.touched = << >>,
                                !.at = AtFlush(WriteBatches(flush_buffer,
                                                            SortedSeq(DOMAIN flush_buffer)))]
    /\ UNCHANGED <<memVars, total_count, top_n_count, nStoreFail>>

\* flush() whose ingest_batch fails: the buffer was moved out by
\* std::mem::take, the error is returned before retain_top_n
FlushIngestFails ==
    /\ ~tstate.panicked
    /\ IsDirty
    /\ nStoreFail < MaxStoreFailures
    /\ nStoreFail' = nStoreFail + 1
    /\ flush_buffer' = << >>
    /\ tstate' = [tstate EXCEPT !.op = "flush", !.ret = <<"Err">>, !.rec = None,
                                !.lost = << >>, !.touched = << >>,
                                !.at = AtFlush(WriteBatches(flush_buffer,
                                                            SortedSeq(DOMAIN flush_buffer)))]
    /\ UNCHANGED <<memVars, store, top_n, total_count, top_n_count>>

\* fill_in_cache() on a clean state (its documented precondition)
RECURSIVE InsertAll(_, _)
InsertAll(cache, kvs) ==
    IF kvs = <<>> THEN cache
    ELSE InsertAll(MapInsert(cache, Head(kvs)[1], Head(kvs)[2]), Tail(kvs))

FillInCache ==
    /\ ~tstate.panicked
    /\ ~IsDirty
    /\ top_n' = RetainTopN(InsertAll(top_n, ScanFromStorage(store, top_n_count)),
                           top_n_count)
    /\ tstate' = [tstate EXCEPT !.op = "fill_in_cache", !.ret = <<"Ok">>,
                                !.loaded = TRUE, !.at = None]
    /\ UNCHANGED <<memVars, store, flush_buffer, total_count, top_n_count, nStoreFail>>

\* whether the last call was a flush() that returned Ok
JustFlushed == tstate.op = "flush" /\ tstate.ret = <<"Ok">>

\* the instance is dropped (or its process dies) and ManagedTopNState::new
\* makes a fresh one over the same store.  The total_count it is given is the
\* one the old instance had when it was dropped right after a flush, and else
\* the number of rows persisted by the last flush.
Recover ==
    /\ tstate.op # "new"
    /\ top_n' = << >>
    /\ flush_buffer' = << >>
    /\ total_count' = IF JustFlushed THEN total_count ELSE Cardinality(StoreKeys)
    /\ tstate' = [NewHistory EXCEPT
                     !.rec = IF JustFlushed /\ tstate.loaded /\ ~tstate.panicked
                             THEN Some(TopElement) ELSE None,
                     !.lost = tstate.touched]
    /\ UNCHANGED <<memVars, store, top_n_count, nStoreFail>>

-----------------------------------------------------------------------------
(* FlushStatus on its own: do_insert and do_delete on one buffer entry. *)

\* the key whose entry is folded
FoldKey == 1

\* FlushStatus::do_insert(self.flush_buffer.entry(key), value)
FoldInsert(r) ==
    /\ Len(tstate.ops) < MaxFoldOps
    /\ flush_buffer' = DoInsert(flush_buffer, FoldKey, r)
    /\ tstate' = [tstate EXCEPT !.ops = Append(@, <<"ins", r>>)]
    /\ UNCHANGED <<memVars, store, top_n, total_count, top_n_count, nStoreFail>>

\* FlushStatus::do_delete(self.flush_buffer.entry(key))
FoldDelete ==
    /\ Len(tstate.ops) < MaxFoldOps
    /\ flush_buffer' = DoDelete(flush_buffer, FoldKey)
    /\ tstate' = [tstate EXCEPT !.ops = Append(@, <<"del">>)]
    /\ UNCHANGED <<memVars, store, top_n, total_count, top_n_count, nStoreFail>>

NextFold ==
    \/ \E r \in Rows : FoldInsert(r)
    \/ FoldDelete

\* every sequence of inserts and deletes on an entry that starts absent
SpecFold == MemInit /\ [][NextFold]_vars

-----------------------------------------------------------------------------
(* Specification of the top-N state. *)

\* a store holding the rows of the keys ks, every cell of a row present
StoreOf(ks) == [c \in ks \X CellIdx |-> Serialize(1)]

\* ManagedTopNState::new(top_n_count, total_count, keyspace, schema) over a
\* store that holds total_count rows
TopInit ==
    /\ MemStart
    /\ \E ks \in SUBSET TopKeys :
          /\ store = StoreOf(ks)
          /\ total_count = Cardinality(ks)
    /\ top_n_count \in {None} \cup {Some(n) : n \in 1..MaxTopNCount}
    /\ top_n = << >>
    /\ flush_buffer = << >>
    /\ tstate = NewHistory
    /\ nStoreFail = 0

NextTopN ==
    \/ \E k \in TopKeys : \E r \in Rows : Insert(k, r)
    \/ PopNone
    \/ PopPanics
    \/ PopTopElement
    \/ PopScanFails
    \/ FlushClean
    \/ Flush
    \/ FlushIngestFails
    \/ FillInCache
    \/ Recover

SpecTopN == TopInit /\ [][NextTopN]_vars

-----------------------------------------------------------------------------
(* Claims about the top-N state. *)

\* the row a logical key stands for: the pending one, else the persisted one
LogicalRow(k) ==
    IF k \in DOMAIN flush_buffer THEN flush_buffer[k][2] ELSE Deserialize(store[<<k, 0>>])

\* C7: in every state, total_count is the number of rows the instance stands
\* for: the persisted rows with the pending deletes taken out and the pending
\* inserts put in.  (Every insert of the model has a key that is no current
\* row, as the caller's contract of unique keys has it.)
C7_TotalCountAuthoritative == total_count = Cardinality(LogicalKeys)

\* C8: once the cache has been loaded from storage, and while no store call
\* has failed and nothing has panicked, a non-empty state's top_element() is
\* the least key of all its rows, cached or only persisted, with that key's row.
C8_TopIsGlobalTop ==
    (tstate.loaded /\ ~tstate.panicked /\ nStoreFail = 0 /\ total_count > 0) =>
        /\ LogicalKeys # {}
        /\ TopElement = Some(<<Min(LogicalKeys), LogicalRow(Min(LogicalKeys))>>)

\* C9: once the cache has been loaded, and while no store call has failed, a
\* pop_top_element() returns: it returns None only when total_count is 0, and
\* the key it returns is below every row that remains, so that consecutive
\* pops go through the rows in ascending key order, each row once, refilling
\* from storage when the cache drains.
C9_PopOrder ==
    (tstate.loaded /\ nStoreFail = 0 /\ tstate.op = "pop") =>
        /\ tstate.ret # <<"Panic">>
        /\ tstate.ret = None => total_count = 0
        /\ tstate.ret # None => \A k \in LogicalKeys : tstate.ret[2][1] < k

\* C10: in every state reached by insert, pop_top_element and flush after the
\* cache has been loaded (top_n_count is None or at least 1), total_count > 0
\* implies that the cache is not empty.
C10_NonEmptyCache == (tstate.loaded /\ total_count > 0) => DOMAIN top_n # {}

\* the row scan_from_storage reads for key k from a store, if any
StoredRow(st, k) ==
    LET kvs == ScanFromStorage(st, None)
        at == {i \in 1..Len(kvs) : kvs[i][1] = k}
    IN  IF at = {} THEN None ELSE Some(kvs[CHOOSE i \in at : TRUE][2])

\* the cells of key k in a store
CellsOf(st, k) == [c \in {c \in CellIdx : <<k, c>> \in DOMAIN st} |-> st[<<k, c>>]]

\* C11: when the last call is a flush() that returned Ok, then for every key
\* touched (inserted or popped) since the flush() call before it the store
\* holds the net result: every cell of the key and the last inserted row if the
\* key's last operation was an insert, no cell if it was a delete; every key
\* not touched has the cells it had before; and the flush buffer is empty.
C11_FlushPersistsNetOutcome ==
    JustFlushed =>
        LET f == tstate.at[2]
        IN  /\ ~IsDirty
            /\ \A k \in TopKeys :
                  IF k \notin DOMAIN f.flushed
                  THEN CellsOf(store, k) = CellsOf(f.pre, k)
                  ELSE IF f.flushed[k].last = <<"del">>
                       THEN DOMAIN CellsOf(store, k) = {} /\ StoredRow(store, k) = None
                       ELSE /\ DOMAIN CellsOf(store, k) = CellIdx
                            /\ StoredRow(store, k) = Some(f.flushed[k].last[2])

\* a flush that returned Ok after a persisted key was popped, another key was
\* given a new row and a third, persisted, key was left alone
C11_Witness ==
    /\ JustFlushed
    /\ LET f == tstate.at[2]
       IN  \E k1, k2, k3 \in TopKeys :
              /\ k1 \in DOMAIN f.flushed /\ f.flushed[k1].last = <<"del">>
              /\ StoredRow(f.pre, k1) # None
              /\ k2 \in DOMAIN f.flushed /\ f.flushed[k2].last = <<"ins", 2>>
              /\ StoredRow(store, k2) = Some(2)
              /\ k3 \notin DOMAIN f.flushed /\ StoredRow(store, k3) # None

\* the keys that were not persisted, were inserted and were last popped in the
\* flush interval that the flush() just called has closed
NetAbsentNewKeys ==
    IF tstate.op # "flush" THEN {}
    ELSE LET f == tstate.at[2]
         IN  {k \in DOMAIN f.flushed :
                 /\ f.flushed[k].ins
                 /\ f.flushed[k].last = <<"del">>
                 /\ DOMAIN CellsOf(f.pre, k) = {}}

\* the writes a batch holds for the cells of key k
WritesFor(writes, k) == {i \in 1..Len(writes) : writes[i][1][1] = k}

\* C12 as stated: a key that was not persisted, was inserted and then popped
\* within one flush interval gets no write, neither a value nor a tombstone,
\* in the batch of the flush() that follows.
C12_NoWriteForNetAbsentKey ==
    \A k \in NetAbsentNewKeys : WritesFor(tstate.at[2].writes, k) = {}

\* C12, amended: for such a key the batch of the flush() that follows holds
\* one write per cell of the key, each of them a tombstone (None) and none a
\* value, and after a flush() that returned Ok the store has no cell of it.
C12_NetAbsentKeyWritesTombstones ==
    \A k \in NetAbsentNewKeys :
        LET writes == tstate.at[2].writes
        IN  /\ \A c \in CellIdx :
                  \E i \in WritesFor(writes, k) :
                      /\ writes[i] = <<<<k, c>>, None>>
                      /\ \A j \in WritesFor(writes, k) : writes[j][1] = <<k, c>> => j = i
            /\ JustFlushed => DOMAIN CellsOf(store, k) = {}

\* a flush() returned Ok after a new key was inserted and popped again
C12_Witness == JustFlushed /\ NetAbsentNewKeys # {}

\* C13: when the last call is a flush() that failed (ingest_batch returned an
\* error), the flush buffer still holds a pending change for every key touched
\* in the interval, so the state is still dirty and a later flush retries.
C13_FlushFailureKeepsDirty ==
    (tstate.op = "flush" /\ tstate.ret = <<"Err">>) =>
        /\ IsDirty
        /\ DOMAIN tstate.at[2].flushed \subseteq DOMAIN flush_buffer

\* the n smallest keys of a set, all of them when it has fewer
Smallest(S, n) == {k \in S : Cardinality({j \in S : j < k}) < n}

\* C14: when the last call is a flush() that returned Ok (dirty or not) and
\* top_n_count is Some(n), the cache holds at most n entries, and they are the
\* n smallest keys the cache held before the flush, with their rows.  When
\* top_n_count is None the flush leaves the cache as it was, and in every
\* state every key inserted and not popped since the last flush is cached.
C14_CacheBoundAfterFlush ==
    /\ JustFlushed =>
          LET before == tstate.at[2].cache
          IN  IF top_n_count = None THEN top_n = before
              ELSE /\ Cardinality(DOMAIN top_n) <= top_n_count[2]
                   /\ DOMAIN top_n = Smallest(DOMAIN before, top_n_count[2])
                   /\ \A k \in DOMAIN top_n : top_n[k] = before[k]
    /\ top_n_count = None =>
          \A k \in DOMAIN tstate.touched :
              tstate.touched[k].last # <<"del">> => k \in DOMAIN top_n

\* a flush() that returned Ok and cut a cache of more than n entries
C14_Witness ==
    /\ JustFlushed
    /\ top_n_count # None
    /\ Cardinality(DOMAIN tstate.at[2].cache) > top_n_count[2]
    /\ Cardinality(DOMAIN top_n) = top_n_count[2]

\* C15: a fresh instance made over the same store right after a loaded
\* instance's flush() returned Ok, given that instance's total_count and loaded
\* with fill_in_cache, is not dirty, caches at most top_n_count rows, and has
\* the top element the old instance had at the flush.  No store call has
\* failed.
C15_RecoveryRoundTrip ==
    (tstate.op = "fill_in_cache" /\ tstate.rec # None /\ nStoreFail = 0) =>
        /\ ~IsDirty
        /\ top_n_count # None => Cardinality(DOMAIN top_n) <= top_n_count[2]
        /\ TopElement = tstate.rec[2]

-----------------------------------------------------------------------------
(* Claims about the uploader (Spec). *)

\* the memtables of a registration are in ascending order of their start keys
SortedByStartKey(ts) ==
    \A i, j \in 1..Len(ts) : i < j => ~FullKeyLess(start_key(ts[j]), start_key(ts[i]))

\* C16: when the first sync() was called after N >= 1 write_batch calls and
\* has returned Ok, the metadata service has received exactly one add_tables
\* call for it (and none else while it is the only sync); the call lists the
\* N memtables written before the sync, each once, and they went to the table
\* builder in ascending order of their start keys.
C16_OneRegistrationPerSync ==
    (Len(syncs) >= 1 /\ syncs[1].st = "Ok" /\ syncs[1].written >= 1) =>
        LET calls == {i \in 1..Len(meta) : meta[i].sid = 1}
        IN  /\ Cardinality(calls) = 1
            /\ Len(syncs) = 1 => Len(meta) = 1
            /\ \A i \in calls :
                  /\ Len(meta[i].tables) = syncs[1].written
                  /\ {meta[i].tables[j].id : j \in 1..Len(meta[i].tables)}
                        = 1..syncs[1].written
                  /\ SortedByStartKey(meta[i].tables)

\* two batches written against the order of their start keys and registered by
\* the first sync
C16_Witness ==
    /\ Len(syncs) >= 1 /\ syncs[1].st = "Ok" /\ syncs[1].written = 2
    /\ Len(meta) >= 1 /\ meta[1].tables[1].id = 2

\* the epochs of a sequence of memtables
EpochsOf(ms) == {ms[i].epoch : i \in 1..Len(ms)}

\* the epochs of the memtables registered by the add_tables calls 1..n
RegisteredEpochs(n) == UNION {EpochsOf(meta[i].tables) : i \in 1..n}

\* the epochs of the memtables the uploader holds or has registered
HeldEpochs ==
    EpochsOf(memtables_to_upload) \cup RegisteredEpochs(Len(meta))
        \cup (IF upc \in {"build", "upload", "add_tables"} THEN EpochsOf(cur.taken) ELSE {})

C18_UploadErrorReachesCaller ==
    [][/\ nFail' = nFail + 1 =>
             (syncs[cur.sid].st = "waiting" =>
                 /\ syncs' = [syncs EXCEPT ![cur.sid].st = "Err"]
                 /\ upc' = "idle"
                 /\ chan' = chan)
       /\ \A sid \in 1..Len(syncs) :
             (syncs[sid].st # "Err" /\ syncs'[sid].st = "Err") =>
                 (nFail' = nFail + 1 /\ cur.sid = sid)
       /\ (upc = "idle" /\ chan # <<>>) => ENABLED UploaderStep
      ]_vars

\* the first sync() failed, and a batch written after it was registered by
\* the second sync(), which returned Ok
C18_Witness ==
    /\ Len(syncs) = 2 /\ syncs[1].st = "Err" /\ syncs[2].st = "Ok"
    /\ syncs[1].written = 1 /\ syncs[2].written = 2
    /\ Len(meta) = 1 /\ meta[1].sid = 2 /\ meta[1].tables[1].id = 2

\* C19: no sync() call panics: one that is made after the uploader has ended,
\* or whose SYNC item the uploader drops unanswered, returns an error.
C19_SyncOnDeadUploader == \A sid \in 1..Len(syncs) : syncs[sid].st # "panic"

\* C20: while the uploader works on a SYNC whose caller has dropped its
\* sync() future, the upload can go on: the build and the upload can complete,
\* and add_tables can register every memtable that was taken from the buffer,
\* leaving the dropped call's result as it is.
C20_CancelledSyncStillUploads ==
    (upc \in {"build", "upload", "add_tables"} /\ syncs[cur.sid].st = "dropped") =>
        /\ upc = "build" => ENABLED UploaderBuildOk
        /\ upc = "upload" => ENABLED UploaderUploadOk
        /\ upc = "add_tables" =>
              ENABLED (/\ UploaderAddTablesOk
                       /\ meta'[Len(meta')].tables = cur.taken
                       /\ meta'[Len(meta')].sid = cur.sid
                       /\ syncs' = syncs)

\* an add_tables call made for a sync() whose caller was dropped
C20_Witness ==
    \E i \in 1..Len(meta) :
        /\ syncs[meta[i].sid].st = "dropped"
        /\ Len(meta[i].tables) = syncs[meta[i].sid].written
        /\ Len(meta[i].tables) >= 1

-----------------------------------------------------------------------------
(* Claims about the registry's readers and its memtables (SpecRead). *)

\* the points of the user-key line: key k is point 2k, and the odd points are
\* the byte strings that lie strictly between two neighbouring keys
Points == 1..(2 * NumKeys + 1)

\* the points a key range contains
InKeyRange(key_range, x) ==
    /\ CASE key_range.start[1] = "Included" -> x >= 2 * key_range.start[2]
         [] key_range.start[1] = "Excluded" -> x > 2 * key_range.start[2]
         [] OTHER -> TRUE
    /\ CASE key_range.end[1] = "Included" -> x <= 2 * key_range.end[2]
         [] key_range.end[1] = "Excluded" -> x < 2 * key_range.end[2]
         [] OTHER -> TRUE

\* the span [start_user_key, end_user_key] of m shares a point with the range
SpanMeets(key_range, m) ==
    \E x \in Points :
        /\ InKeyRange(key_range, x)
        /\ 2 * start_user_key(m) <= x /\ x <= 2 * end_user_key(m)

\* the registered memtables, as <<epoch, end user key>>, that iters is to
\* return for a key range and an epoch range
Covered(reg, key_range, epoch_range) ==
    {p \in UNION {{<<e, k>> : k \in DOMAIN reg[e]} : e \in (DOMAIN reg) \cap epoch_range} :
        RangeOverlap(key_range, start_user_key(reg[p[1]][p[2]]),
                     end_user_key(reg[p[1]][p[2]]), FALSE)}

\* C21: for every key range and epoch range, iters returns one forward cursor,
\* standing at the first item, for each registered memtable whose epoch is in
\* the epoch range and whose span [start_user_key, end_user_key] overlaps the
\* key range, and no other cursor; the cursors come by ascending epoch and,
\* within an epoch, by ascending end user key (which is ascending start key
\* when the memtables of an epoch do not overlap).  For a key range that
\* contains a point, overlapping is sharing a point of the key line.
C21_IteratorCoverage ==
    \A key_range \in KeyRanges : \A epoch_range \in EpochRanges :
        LET its == Iters(imm_memtables, key_range, epoch_range)
            want == Covered(imm_memtables, key_range, epoch_range)
            Epoch(c) == c.inner[1][1][2]
            EndKey(c) == user_key(c.inner[Len(c.inner)][1])
            StartKey(c) == user_key(c.inner[1][1])
        IN  /\ Len(its) = Cardinality(want)
            /\ \A p \in want :
                  \E i \in 1..Len(its) : its[i] = ForwardIter(imm_memtables[p[1]][p[2]])
            /\ \A i, j \in 1..Len(its) :
                  i < j =>
                      \/ Epoch(its[i]) < Epoch(its[j])
                      \/ /\ Epoch(its[i]) = Epoch(its[j])
                         /\ EndKey(its[i]) < EndKey(its[j])
                         /\ NonOverlapping(imm_memtables) => StartKey(its[i]) < StartKey(its[j])
            /\ (\E x \in Points : InKeyRange(key_range, x)) =>
                  \A e \in DOMAIN imm_memtables : \A k \in DOMAIN imm_memtables[e] :
                      <<e, k>> \in Covered(imm_memtables, key_range, UpTo(NumEpochs))
                          <=> SpanMeets(key_range, imm_memtables[e][k])

\* three memtables are registered; iters over a bounded key range and ..=e
\* returns the cursors of two of them, of different epochs, and leaves out the
\* third, whose epoch is in the range and whose span is outside the key range
C21_Witness ==
    \E key_range \in KeyRanges : \E e \in Epochs :
        /\ key_range.start # Unbounded /\ key_range.end # Unbounded
        /\ Len(Iters(imm_memtables, key_range, UpTo(e))) = 2
        /\ Iters(imm_memtables, key_range, UpTo(e))[1].inner[1][1][2]
              < Iters(imm_memtables, key_range, UpTo(e))[2].inner[1][1][2]
        /\ \E e1 \in (DOMAIN imm_memtables) \cap UpTo(e) : \E k \in DOMAIN imm_memtables[e1] :
              <<e1, k>> \notin Covered(imm_memtables, key_range, UpTo(e))

-----------------------------------------------------------------------------
(* Claims about readers beside writers (SpecRW). *)

\* what the reader's call returns on a registry taken as a whole
ReadOf(reg) ==
    IF rd.op = "get" THEN Get(reg, rd.key, rd.epoch_range)
    ELSE Iters(reg, rd.key, rd.epoch_range)

\* C22: while a get or iters holds its guard the registry is the one it found
\* when it took the guard, and no write_batch or delete_before is between its
\* lock and its unlock; the registry it found is not one a writer was half-way
\* through (no epoch entry without a memtable); and what the call returns is what
\* get or iters gives on that one registry as a whole, so every write_batch and
\* delete_before is seen either fully or not at all.
C22_AtomicBatchVisibility ==
    rd.pc \in {"visit", "read_unlock"} =>
        /\ imm_memtables = rd.snap
        /\ wr.pc \in {"idle", "write_lock"}
        /\ \A e \in DOMAIN rd.snap : DOMAIN rd.snap[e] # {}
        /\ rd.pc = "read_unlock" => rd.acc = ReadOf(rd.snap)

\* an iters call holds its guard and has a cursor already while a
\* write_batch of the same epoch waits for the lock
C22_Witness ==
    /\ rd.pc = "visit" /\ rd.op = "iters" /\ Len(rd.acc) >= 1
    /\ wr.pc = "write_lock" /\ wr.op = "write_batch"
    /\ wr.epoch \in DOMAIN imm_memtables

-----------------------------------------------------------------------------
(* Claims about the registered memtables (SpecReg). *)

\* C23: every memtable held in the registry has at least one item, its items
\* are strictly ascending by full key, every item's full key carries the
\* memtable's epoch, and the memtable is filed under its epoch and under its
\* own end user key.  (The batches written are the ones a caller may pass:
\* non-empty, sorted, every full key carrying the batch's epoch.)
C23_RegisteredMemtableInvariant ==
    \A e \in DOMAIN imm_memtables : \A k \in DOMAIN imm_memtables[e] :
        LET m == imm_memtables[e][k]
        IN  /\ Len(m.inner) >= 1
            /\ \A i, j \in 1..Len(m.inner) :
                  i < j => FullKeyLess(m.inner[i][1], m.inner[j][1])
            /\ \A i \in 1..Len(m.inner) : m.inner[i][1][2] = m.epoch
            /\ m.epoch = e
            /\ end_user_key(m) = k

\* two epochs are registered, one of them with two memtables, one memtable
\* has two items, and a delete_before has been called
C23_Witness ==
    /\ Cardinality(DOMAIN imm_memtables) >= 2
    /\ \E e \in DOMAIN imm_memtables :
          /\ Cardinality(DOMAIN imm_memtables[e]) = 2
          /\ \E k \in DOMAIN imm_memtables[e] : Len(imm_memtables[e][k].inner) = 2
    /\ lastOp.op = "delete_before"

-----------------------------------------------------------------------------
(* Claims about scan_and_merge and the flush buffer (SpecTopN). *)

\* what the scan_and_merge of the next pop_top_element would do: the pop
\* deletes the first cached key and refills when that drains the cache
NextRefill ==
    ScanAndMerge(ScanFromStorage(store, None),
                 DoDelete(flush_buffer, Min(DOMAIN top_n)), << >>)

\* a pop_top_element called now would call scan_and_merge
RefillDue == ~tstate.panicked /\ total_count > 1 /\ Cardinality(DOMAIN top_n) = 1

\* C24: in every state of a loaded instance in which a pop would drain the
\* cache and call scan_and_merge (no store call has failed), that call does not
\* reach the arm marked unreachable: no storage key is smaller than the key the
\* buffer cursor stands at after the cursor was advanced.
C24_MergeCursorInvariant ==
    (tstate.loaded /\ nStoreFail = 0 /\ RefillDue) => ~NextRefill.panic

\* scan_and_merge called on the instance as it is
MergeNow == ScanAndMerge(ScanFromStorage(store, None), flush_buffer, top_n)

\* a result of scan_and_merge, run with buffer buf on cache, that completed:
\* every stored key without a buffer entry is cached with its stored row, one
\* with a Delete entry is cached only if it was before, one with an Insert(r)
\* or DeleteInsert(r) entry is cached with r, and the keys that are not stored
\* are cached as they were
MergedAsBuffered(buf, cache, res) ==
    \A k \in TopKeys :
        IF k \in StoreKeys /\ k \notin DOMAIN buf
        THEN k \in DOMAIN res /\ Some(res[k]) = StoredRow(store, k)
        ELSE IF k \in StoreKeys /\ buf[k] # FlushDelete
             THEN k \in DOMAIN res /\ res[k] = buf[k][2]
             ELSE /\ k \in DOMAIN res <=> k \in DOMAIN cache
                  /\ k \in DOMAIN cache => res[k] = cache[k]

\* C25: a scan_and_merge that completes, whether called on the instance as it
\* is or by the pop that drains the cache, leaves in the cache every stored key
\* without a buffer entry with its stored row, adds no stored key whose entry is
\* Delete, and holds every stored key whose entry is Insert(r) or
\* DeleteInsert(r) with row r.  (Its result is a cache: it writes neither
\* total_count nor the flush buffer.)
C25_ScanAndMergeResult ==
    /\ ~MergeNow.panic => MergedAsBuffered(flush_buffer, top_n, MergeNow.cache)
    /\ (RefillDue /\ ~NextRefill.panic) =>
          MergedAsBuffered(DoDelete(flush_buffer, Min(DOMAIN top_n)), << >>,
                           NextRefill.cache)

\* a scan_and_merge that completes over a stored key with a Delete entry, a
\* stored key with a DeleteInsert entry of a new row, and a stored key without
\* an entry that is not cached yet
C25_Witness ==
    /\ ~MergeNow.panic
    /\ \E k1, k2, k3 \in StoreKeys :
          /\ k1 \in DOMAIN flush_buffer /\ flush_buffer[k1] = FlushDelete
          /\ k2 \in DOMAIN flush_buffer /\ flush_buffer[k2] = FlushDeleteInsert(2)
          /\ StoredRow(store, k2) = Some(1)
          /\ k3 \notin DOMAIN flush_buffer /\ k3 \notin DOMAIN top_n
          /\ k3 \in DOMAIN MergeNow.cache

-----------------------------------------------------------------------------
(* Claims about FlushStatus (SpecFold). *)

\* C26: after any sequence of insert(v)/delete on one key whose buffer entry
\* was absent, the entry is Delete if the last operation was a delete,
\* Insert(v_last) if the last was an insert and the sequence has no delete,
\* and DeleteInsert(v_last) if the last was an insert and a delete came before
\* it (the three cases exclude each other, so each is an iff); into_option
\* gives None for Delete and Some(v_last) for the other two.
C26_FlushStatusFolding ==
    LET ops == tstate.ops
        n == Len(ops)
    IN  IF n = 0 THEN FoldKey \notin DOMAIN flush_buffer
        ELSE LET status == flush_buffer[FoldKey]
                 deleted == \E i \in 1..n : ops[i] = <<"del">>
             IN  /\ FoldKey \in DOMAIN flush_buffer
                 /\ status = IF ops[n] = <<"del">> THEN FlushDelete
                             ELSE IF deleted THEN FlushDeleteInsert(ops[n][2])
                             ELSE FlushInsert(ops[n][2])
                 /\ IntoOption(status) = IF ops[n] = <<"del">> THEN None
                                         ELSE Some(ops[n][2])

\* insert(1), delete, insert(2) folded into DeleteInsert(2), and one more
\* insert after it
C26_Witness ==
    /\ Len(tstate.ops) = 4
    /\ SubSeq(tstate.ops, 1, 3) = <<<<"ins", 1>>, <<"del">>, <<"ins", 2>>>>
    /\ tstate.ops[4] = <<"ins", 1>>
    /\ flush_buffer[FoldKey] = FlushDeleteInsert(1)

-----------------------------------------------------------------------------
(* Claims about what reaches the store (SpecTopN). *)

\* the keys fill_in_cache loads from the store
LoadedKeys ==
    IF top_n_count = None THEN StoreKeys ELSE Smallest(StoreKeys, top_n_count[2])

\* C27: the store changes only in a step that is a flush() returning Ok, so
\* no insert, pop_top_element (with the scan_and_merge of its refill),
\* fill_in_cache or failed flush writes it; and the fill_in_cache of a fresh
\* instance (made by new over the store as it is, whatever its predecessor had
\* inserted or popped without a flush) leaves the store alone and caches
\* stored rows only, the top_n_count smallest stored keys with their stored
\* rows, so that its top element is the smallest stored key.
C27_OnlyFlushWritesStore ==
    [][/\ store' # store => (tstate'.op = "flush" /\ tstate'.ret = <<"Ok">>)
       /\ (tstate.op = "new" /\ tstate'.op = "fill_in_cache") =>
             /\ store' = store
             /\ DOMAIN top_n' = LoadedKeys
             /\ \A k \in LoadedKeys : Some(top_n'[k]) = StoredRow(store, k)
             /\ (StoreKeys # {} /\ total_count' > 0) =>
                   TopElement' = Some(<<Min(StoreKeys), StoredRow(store, Min(StoreKeys))[2]>>)
      ]_vars

\* a fresh instance has been loaded after its predecessor was dropped with an
\* unflushed pop of a persisted row, which is the top element again, and an
\* unflushed insert of a new row, which is gone
C27_Witness ==
    /\ tstate.op = "fill_in_cache"
    /\ \E k1, k2 \in DOMAIN tstate.lost :
          /\ tstate.lost[k1].last = <<"del">>
          /\ k1 \in StoreKeys
          /\ TopElement = Some(<<k1, StoredRow(store, k1)[2]>>)
          /\ tstate.lost[k2].last[1] = "ins"
          /\ k2 \notin StoreKeys
          /\ k2 \notin DOMAIN top_n

-----------------------------------------------------------------------------
(* Claims about the order of the uploader's work (Spec). *)

\* the identities of a sequence of memtables, in its order
IdsOf(ms) == [i \in 1..Len(ms) |-> ms[i].id]

\* the memtables queued in the channel, in its order
QueuedMemtables ==
    LET IsMemtable(item) == item[1] = "MEMTABLE"
        items == SelectSeq(chan, IsMemtable)
    IN  [i \in 1..Len(items) |-> items[i][2]]

\* the SYNC items queued in the channel
QueuedSyncs == {chan[i][2] : i \in {j \in 1..Len(chan) : chan[j][1] = "SYNC"}}

\* the number of write_batch calls made before sync() call sid
WrittenBefore(sid) == IF sid = 0 THEN 0 ELSE syncs[sid].written

\* the memtables sent after the SYNC of call sid - 1 and before the SYNC of sid
SentFor(sid) == (WrittenBefore(sid - 1) + 1)..WrittenBefore(sid)

\* the last sync() call whose SYNC item the uploader has received
LastReceived == Len(syncs) - Cardinality(QueuedSyncs)

\* item a was sent before item b
SentBefore(a, b) ==
    CASE a[1] = "MEMTABLE" /\ b[1] = "MEMTABLE" -> a[2].id < b[2].id
      [] a[1] = "SYNC" /\ b[1] = "SYNC" -> a[2] < b[2]
      [] a[1] = "MEMTABLE" /\ b[1] = "SYNC" -> a[2].id <= WrittenBefore(b[2])
      [] a[1] = "SYNC" /\ b[1] = "MEMTABLE" -> WrittenBefore(a[2]) < b[2].id

\* C28: the channel holds its items in the order they were sent, and the
\* uploader takes no item while it handles one.  The memtables a SYNC takes
\* for its upload, and those its add_tables call registers, are exactly the
\* memtables sent after the previous SYNC and before it; the memtables sent
\* after the last SYNC received wait, in order, in the buffer and the channel;
\* and no memtable is registered by two add_tables calls.
C28_UploaderFifo ==
    /\ \A i, j \in 1..Len(chan) : i < j => SentBefore(chan[i], chan[j])
    /\ upc \in {"build", "upload", "add_tables"} =>
          /\ ~ENABLED (UploaderStep /\ chan' # chan)
          /\ Len(cur.taken) = Cardinality(SentFor(cur.sid))
          /\ {cur.taken[i].id : i \in 1..Len(cur.taken)} = SentFor(cur.sid)
    /\ \A i \in 1..Len(meta) :
          /\ Len(meta[i].tables) = Cardinality(SentFor(meta[i].sid))
          /\ {meta[i].tables[j].id : j \in 1..Len(meta[i].tables)} = SentFor(meta[i].sid)
          /\ \A j \in 1..Len(meta) : i # j => meta[i].sid # meta[j].sid
    /\ \A i, j \in 1..Len(meta) :
          i # j => \A a \in 1..Len(meta[i].tables) : \A b \in 1..Len(meta[j].tables) :
                      meta[i].tables[a].id # meta[j].tables[b].id
    /\ RxAlive =>
          IdsOf(memtables_to_upload \o QueuedMemtables)
              = [i \in 1..(nWrites - WrittenBefore(LastReceived)) |->
                    WrittenBefore(LastReceived) + i]

\* two sync() calls have returned Ok; the first registered the memtable
\* written before it, the second the memtable written after the first call
C28_Witness ==
    /\ Len(syncs) = 2 /\ syncs[1].st = "Ok" /\ syncs[2].st = "Ok"
    /\ syncs[1].written = 1 /\ syncs[2].written = 2
    /\ Len(meta) = 2
    /\ IdsOf(meta[1].tables) = <<1>> /\ IdsOf(meta[2].tables) = <<2>>

\* the uploader is inside sync(), between two of its awaits
Uploading == upc \in {"build", "upload", "add_tables"}

\* every user key
FullRange == [start |-> Unbounded, end |-> Unbounded]

\* write_batch(B, e), called during an upload, has returned Ok without a step
\* of the uploader: the memtable is the newest item of the channel, the
\* uploader stands where it stood and holds what it held, iters at epoch e
\* returns a cursor on the memtable, and get at epoch e returns the batch's
\* values when the batch overlaps no memtable registered at e
WrittenDuringUpload(B, e) ==
    LET m == NewMemtable(B, e, nWrites + 1)
    IN  /\ lastOp'.res = "Ok"
        /\ chan' = Append(chan, MemtableItem(m))
        /\ upc' = upc /\ cur' = cur /\ meta' = meta
        /\ memtables_to_upload' = memtables_to_upload
        /\ \E i \in 1..Len(Iters(imm_memtables', FullRange, {e})) :
              Iters(imm_memtables', FullRange, {e})[i] = ForwardIter(m)
        /\ RangeDisjoint(imm_memtables, B, e) =>
              \A i \in 1..Len(B) :
                  Get(imm_memtables', user_key(B[i][1]), {e}) = Some(B[i][2])

\* C29: while the uploader is in the middle of an upload, a live manager can
\* complete any write_batch call, and every such call ends as
\* WrittenDuringUpload says; the uploader cannot receive a memtable before the
\* upload has finished.
C29_WritersNeverWait ==
    Uploading =>
        /\ ~ENABLED UploaderRecvMemtable
        /\ mgr = "alive" =>
              \A e \in Epochs : \A B \in BatchesOver(Keys, {Put(1)}, e) :
                  /\ ENABLED WriteBatch(B, e)
                  /\ ~ENABLED (WriteBatch(B, e) /\ ~WrittenDuringUpload(B, e))

\* the uploader works on the first SYNC, which took the first memtable; the
\* second write_batch has returned and its memtable waits in the channel
C29_Witness ==
    /\ Uploading /\ cur.sid = 1 /\ IdsOf(cur.taken) = <<1>>
    /\ lastOp.op = "write_batch" /\ lastOp.res = "Ok" /\ nWrites = 2
    /\ chan # <<>> /\ chan[Len(chan)][1] = "MEMTABLE" /\ chan[Len(chan)][2].id = 2
    /\ lastOp.epoch \in DOMAIN imm_memtables
    /\ \E k \in DOMAIN imm_memtables[lastOp.epoch] : imm_memtables[lastOp.epoch][k].id = 2

-----------------------------------------------------------------------------
(* Claims about the compactor's channel (Spec). *)

\* the add_tables call of the SYNC the uploader is handling
Registration == [epoch |-> max_upload_epoch, tables |-> cur.taken, sid |-> cur.sid]

-----------------------------------------------------------------------------
(* Claims about the end of the uploader and about rejected batches (Spec). *)

\* the uploader has finished handling the SYNC item of sync() call sid
Handled(sid) == sid \notin QueuedSyncs /\ ~(Uploading /\ cur.sid = sid)

\* C31: the uploader has ended with an error exactly when it has handled the
\* SYNC of a sync() call whose caller had dropped its receiver.  Once it has,
\* it takes no further step, so whatever is queued stays queued; a pending
\* wait() can return, and returns that error, never Ok; and every write_batch
\* of a live manager returns an error.
C31_HandlerErrorStopsUploader ==
    /\ upc = "exit_err" <=>
          \E sid \in 1..Len(syncs) : syncs[sid].st = "dropped" /\ Handled(sid)
    /\ upc = "exit_err" =>
          /\ ~ENABLED UploaderStep
          /\ mgr # "wait_ok"
          /\ mgr = "waiting" => ENABLED (WaitReturn /\ mgr' = "wait_err")
          /\ mgr = "alive" =>
                \A e \in Epochs : \A B \in BatchesOver(Keys, {Put(1)}, e) :
                    /\ ENABLED WriteBatch(B, e)
                    /\ ~ENABLED (WriteBatch(B, e) /\ ~(lastOp'.res = "Err" /\ chan' = chan))

\* the uploader ended on the reply to a dropped caller while a memtable was
\* queued; a later write_batch failed and wait() has returned the error
C31_Witness ==
    /\ upc = "exit_err" /\ mgr = "wait_err"
    /\ chan # <<>> /\ chan[1][1] = "MEMTABLE"
    /\ lastOp.op = "write_batch" /\ lastOp.res = "Err"

-----------------------------------------------------------------------------
(* Claims about memtable cursors (SpecIter). *)

\* a sequence backwards
Reversed(s) == [i \in 1..Len(s) |-> s[Len(s) + 1 - i]]

\* the items of a sorted sequence at or after full key key, in its order
FromKey(inner, key) ==
    LET AtOrAfter(item) == ~FullKeyLess(item[1], key)
    IN  SelectSeq(inner, AtOrAfter)

\* the items of a sorted sequence at or before full key key, in its order
UpToKey(inner, key) ==
    LET AtOrBefore(item) == ~FullKeyLess(key, item[1])
    IN  SelectSeq(inner, AtOrBefore)

\* cursor c has walked along the sequence run from its start: it has passed
\* the first Len(c.seen) items of run, one next() each, stands on the next
\* one, and is valid exactly while one is left
WalksAlong(c, run) ==
    /\ Len(c.seen) <= Len(run)
    /\ c.seen = SubSeq(run, 1, Len(c.seen))
    /\ IsValid(c) <=> Len(c.seen) < Len(run)
    /\ IsValid(c) => CurrentItem(c) = run[Len(c.seen) + 1]

\* what C32 says of one cursor
CursorLaw(c) ==
    /\ (c.key = None /\ c.dir = "FORWARD") => WalksAlong(c, c.inner)
    /\ (c.key = None /\ c.dir = "BACKWARD") => WalksAlong(c, Reversed(c.inner))
    /\ (c.key = None /\ ~IsValid(c)) => Len(c.seen) = Len(c.inner)
    /\ c.op = "rewind" => (c.current_idx = 0 /\ IsValid(c))
    /\ (c.key # None /\ c.dir = "FORWARD") => WalksAlong(c, FromKey(c.inner, c.key[2]))

\* C32: in every step, each cursor that has not panicked is as CursorLaw says:
\* from its creation or a rewind a forward cursor walks along the items of its
\* memtable in ascending order and a backward cursor in descending order, it
\* is valid until exactly len next() calls have been made, a rewind puts it on
\* the first item of its walk, and after seek(key) a forward cursor walks
\* along the items >= key and is invalid at once when there is none.  A step
\* changes at most one cursor, and never the items a cursor runs over.
C32_MemtableCursors ==
    [][/\ \A i \in 1..Len(cursors') :
             ~cursors'[i].panicked => CursorLaw(cursors'[i])
       /\ \A i, j \in 1..Len(cursors) :
             (cursors'[i] # cursors[i] /\ cursors'[j] # cursors[j]) => i = j
       /\ \A i \in 1..Len(cursors) : cursors'[i].inner = cursors[i].inner
      ]_vars

\* two cursors over one memtable of three items: a forward cursor that was
\* sought to the second item and has walked to the end, and a backward cursor
\* that has walked all three items
C32_Witness ==
    /\ Len(cursors) = 2
    /\ cursors[1].inner = cursors[2].inner /\ Len(cursors[1].inner) = 3
    /\ cursors[1].dir = "FORWARD" /\ cursors[1].key # None
    /\ ~IsValid(cursors[1]) /\ ~cursors[1].panicked
    /\ cursors[1].seen = SubSeq(cursors[1].inner, 2, 3)
    /\ cursors[2].dir = "BACKWARD" /\ cursors[2].key = None
    /\ ~IsValid(cursors[2]) /\ ~cursors[2].panicked
    /\ cursors[2].seen = Reversed(cursors[2].inner)

\* C33: after seek(key) a backward cursor that has not panicked walks along
\* the items <= key in descending order: it is valid exactly when there is
\* such an item, stands on the largest of them, and next() visits the rest.
C33_ReverseSeek ==
    \A i \in 1..Len(cursors) :
        (cursors[i].dir = "BACKWARD" /\ cursors[i].key # None /\ ~cursors[i].panicked) =>
            WalksAlong(cursors[i], Reversed(UpToKey(cursors[i].inner, cursors[i].key[2])))

-----------------------------------------------------------------------------
(* Claims about the registry and the uploader's queue (Spec, SpecReg). *)

\* the memtables of the registry
Registered(reg) == UNION {{reg[e][k] : k \in DOMAIN reg[e]} : e \in DOMAIN reg}

\* C34: when the last call of the manager was a write_batch that returned an
\* error, the memtable of its batch is not in the registry: iters returns no
\* cursor on it and get does not find it.
C34_FailedWriteLeavesRegistry ==
    (lastOp.op = "write_batch" /\ lastOp.res = "Err") =>
        \A m \in Registered(imm_memtables) : m.id # nWrites

\* the memtables sent to the uploader and not yet uploaded
Sent == {QueuedMemtables[i] : i \in 1..Len(QueuedMemtables)}
            \cup {memtables_to_upload[i] : i \in 1..Len(memtables_to_upload)}

\* C35: the registry and the uploader's queue gain the same memtable in every
\* write_batch step, the registry loses none in it, even when a memtable with
\* the same end user key is registered at the batch's epoch, and only a
\* delete_before step takes a memtable out of the registry.
C35_RegistryAgreesWithUploader ==
    [][/\ nWrites' = nWrites + 1 =>
             LET m == NewMemtable(lastOp'.batch, lastOp'.epoch, nWrites')
             IN  /\ Registered(imm_memtables') = Registered(imm_memtables) \cup {m}
                 /\ Sent' = Sent \cup {m}
       /\ ~(Registered(imm_memtables) \subseteq Registered(imm_memtables')) =>
             (lastOp'.op = "delete_before" /\ nWrites' = nWrites)
      ]_vars

=============================================================================
